---- MODULE Spec2Model ----
(***************************************************************************)
(* Model of claude_code_log/parser.py: the span segmenter                  *)
(* (group_messages_into_spans, SpecSeg), the date filter                   *)
(* (filter_messages_by_date, SpecFilter), the ingestion engine             *)
(* (load_transcript, SpecLoad) with its cache collaborator, and the        *)
(* multi-source load (load_directory_transcripts, SpecDir); and of         *)
(* process_entries_for_api of claude_code_log/server.py (SpecApi).         *)
(*                                                                         *)
(* Python values are represented as follows.                               *)
(*   str            a sequence of one-character strings                    *)
(*   Optional[x]    a record [some, v]; some = FALSE is None               *)
(*   datetime       [day, sec, us, aware, off]: wall clock day, second of  *)
(*                  the day, microsecond; off is the UTC offset in seconds *)
(*                  of an aware value                                      *)
(*   timestamp str  [form, day, sec, us, zone]: form is "none" (the        *)
(*                  attribute is None or missing), "empty" (""), "garbage" *)
(*                  (text datetime.fromisoformat rejects) or "iso"; zone   *)
(*                  is the suffix of the text: "" (none), "Z" or "+01:00"  *)
(*   indices        0-based as in the source; At(s, i) reads s[i]          *)
(***************************************************************************)
EXTENDS Integers, Sequences, FiniteSets, TLC

VARIABLES
    messages,     \* the parameter `messages` of group_messages_into_spans and
                  \* of filter_messages_by_date; the local list of load_transcript
    gap_seconds,  \* group_messages_into_spans: the argument `gap_seconds`
    seq,          \* local `seq` (non-summary messages)
    cur,          \* local `cur` (the open span's accumulator dict)
    spans,        \* local `spans` (the list returned)
    i,            \* loop variable of `for i in range(1, len(seq))`
    pc,           \* position of the running call
    calls,        \* number of calls of the function started so far
    first_spans,  \* what the first call returned
    input0,       \* the caller's sequence as it was before the first call
    from_date,    \* the argument `from_date` (filter and load)
    to_date,      \* the argument `to_date` (filter and load)
    from_dt,      \* filter_messages_by_date: local `from_dt`
    to_dt,        \* filter_messages_by_date: local `to_dt`
    filtered_messages,  \* filter_messages_by_date: local `filtered_messages`
    pos,          \* number of elements the running `for` loop has consumed
    ret,          \* what the ended call gave its caller
    file,         \* the lines of the source file at jsonl_path
    mtime,        \* modification state of the source file
    cache,        \* what the cache manager holds for the source
    cache_manager,  \* whether the running call was given a cache manager
    diagnostics,  \* the diagnostics the running call has printed
    served,       \* where the ended call took its result from
    cache_log,    \* the cache operations the running call has made
    parsed,       \* the latest call that parsed the source with a cache manager
    save_arg,     \* the entries the running call handed to save_cached_entries
    jsonl_files,  \* load_directory_transcripts: local `jsonl_files`, each file
                  \* given by its lines
    all_messages, \* load_directory_transcripts: local `all_messages`
    entries,      \* process_entries_for_api: the parameter `entries`
    uuid_to_session,    \* local dict `uuid_to_session`
    session_summaries,  \* local dict `session_summaries`
    sessions,     \* local dict `sessions`, its values in insertion order
    seen_sessions,      \* local set `seen_sessions`
    seen_request_ids,   \* local set `seen_request_ids`
    counted       \* the positions in `entries` of the entries whose usage
                  \* the branch of line 365 has added to the totals

segVars == <<gap_seconds, seq, cur, spans, i, calls, first_spans>>

filterVars == <<from_dt, to_dt, filtered_messages>>

loadVars == <<file, mtime, cache, cache_manager, diagnostics, served, cache_log, parsed, save_arg>>

dirVars == <<jsonl_files, all_messages>>

apiVars == <<entries, uuid_to_session, session_summaries, sessions,
             seen_sessions, seen_request_ids, counted>>

vars == <<messages, pc, input0, from_date, to_date, pos, ret,
          segVars, filterVars, loadVars, dirVars, apiVars>>

\* ------------------------------------------------------------------ bounds

MaxLen == 3
MaxFilterLen == 3
MaxLines == 2
MaxFiles == 2
MaxDirLines == 3
MaxEntries == 3

\* ------------------------------------------------------- program constants

DefaultGap == 600
TitleMax == 120
SecondsPerDay == 86400

\* ------------------------------------------------------------ Python basics

\* None where a str made of characters is expected (a title, a text)
None == [some |-> FALSE, v |-> <<>>]
Some(x) == [some |-> TRUE, v |-> x]

\* None where a datetime is expected
NoDt == [some |-> FALSE, v |-> [day |-> 0, sec |-> 0, us |-> 0, aware |-> FALSE, off |-> 0]]

At(s, idx) == s[idx + 1]

\* the elements of a sequence
Range(s) == { s[k] : k \in 1..Len(s) }

Repeat(c, n) == [k \in 1..n |-> c]

IsSpace(c) == c \in {" ", "\n", "\t", "\r"}

IsLineBreak(c) == c \in {"\n", "\r"}

\* str.strip(): drop leading and trailing whitespace
Strip(s) ==
    LET idx == {k \in 1..Len(s) : ~IsSpace(s[k])}
    IN  IF idx = {} THEN <<>>
        ELSE LET lo == CHOOSE k \in idx : \A m \in idx : k <= m
                 hi == CHOOSE k \in idx : \A m \in idx : m <= k
             IN  SubSeq(s, lo, hi)

\* str.splitlines()[0] of a text that is not empty
FirstLine(s) ==
    LET brk == {k \in 1..Len(s) : IsLineBreak(s[k])}
    IN  IF brk = {} THEN s
        ELSE SubSeq(s, 1, (CHOOSE k \in brk : \A m \in brk : k <= m) - 1)

\* s[:n]
Take(s, n) == IF Len(s) <= n THEN s ELSE SubSeq(s, 1, n)

RECURSIVE JoinLines(_)
\* "\n".join(parts)
JoinLines(parts) ==
    IF parts = <<>> THEN <<>>
    ELSE IF Len(parts) = 1 THEN parts[1]
    ELSE parts[1] \o <<"\n">> \o JoinLines(Tail(parts))

RECURSIVE SelectIdx(_, _)
\* the elements of s whose position is in the set keep, in order
SelectIdx(s, keep) ==
    IF s = <<>> THEN <<>>
    ELSE LET n == Len(s)
             front == SelectIdx(SubSeq(s, 1, n - 1), keep)
         IN  IF n \in keep THEN Append(front, s[n]) ELSE front

\* ------------------------------------------------------------- timestamps

NoTs == [form |-> "none", day |-> 0, sec |-> 0, us |-> 0, zone |-> ""]
EmptyTs == [form |-> "empty", day |-> 0, sec |-> 0, us |-> 0, zone |-> ""]
GarbageTs == [form |-> "garbage", day |-> 0, sec |-> 0, us |-> 0, zone |-> ""]
Iso(d, s, u, z) == [form |-> "iso", day |-> d, sec |-> s, us |-> u, zone |-> z]

\* the UTC offset, in seconds, that a zone suffix denotes
ZoneOffset(z) ==
    CASE z = "Z" -> 0
      [] z = "+00:00" -> 0
      [] z = "+01:00" -> 3600
      [] z = "-01:00" -> 0 - 3600
      [] OTHER -> 0

\* parse_timestamp: "Z" is rewritten to "+00:00", then datetime.fromisoformat
parse_timestamp(ts) ==
    IF ts.form = "iso"
    THEN Some([day |-> ts.day, sec |-> ts.sec, us |-> ts.us,
               aware |-> ts.zone # "", off |-> ZoneOffset(ts.zone)])
    ELSE NoDt

\* truthiness of a timestamp attribute (None and "" are falsy)
TsTruthy(ts) == ts.form \notin {"none", "empty"}

\* ------------------------------------------------------ date expressions

\* a from/to argument that is None
NoExpr == [some |-> FALSE, v |-> <<>>]

\* nothing returned yet
NoReturn == [how |-> "pending", value |-> <<>>, error |-> <<>>]

Returns(value) == [how |-> "returned", value |-> value, error |-> <<>>]

Raises(type, text) == [how |-> type, value |-> <<>>, error |-> text]

\* Truthy as `opt is not None`
TruthyNotNone(opt) == opt.some

\* truthiness of an Optional[str]: None and "" are falsy
Truthy(opt) == opt.some /\ opt.v # <<>>

\* `sub in text` for two str
Contains(text, sub) ==
    \E k \in 0..(Len(text) - Len(sub)) : SubSeq(text, k + 1, k + Len(sub)) = sub

ExprToday == <<"t", "o", "d", "a", "y">>
ExprYesterday == <<"y", "e", "s", "t", "e", "r", "d", "a", "y">>
ExprDaysAgo == <<"d", "a", "y", "s", " ", "a", "g", "o">>
Expr2DaysAgo == <<"2", " ">> \o ExprDaysAgo
Expr1DayAgo == <<"1", " ", "d", "a", "y", " ", "a", "g", "o">>
ExprGarbage == <<"?", "?">>
\* an absolute date and time of day 1, without and with a zone
ExprAbsolute == <<"D", "1", " ", "1", "2", ":", "0", "0">>
ExprAbsoluteZ == <<"D", "1", " ", "1", "2", ":", "0", "0", "Z">>

Naive(d, s, u) == [day |-> d, sec |-> s, us |-> u, aware |-> FALSE, off |-> 0]

\* the clock dateparser reads while it resolves a relative expression
NowDt == Naive(2, 45296, 7)

DaysBefore(dt, n) == [dt EXCEPT !.day = @ - n]

\* dateparser.parse(expr): the datetime the library resolves the expression
\* to (relative ones keep the clock's time of day), None for text it cannot
\* read; a text that carries a zone resolves to an aware datetime
dateparser_parse(expr) ==
    CASE expr = ExprToday -> Some(NowDt)
      [] expr = ExprYesterday -> Some(DaysBefore(NowDt, 1))
      [] expr = Expr1DayAgo -> Some(DaysBefore(NowDt, 1))
      [] expr = Expr2DaysAgo -> Some(DaysBefore(NowDt, 2))
      [] expr = ExprAbsolute -> Some(Naive(1, 43200, 0))
      [] expr = ExprAbsoluteZ -> Some([Naive(1, 43200, 0) EXCEPT !.aware = TRUE])
      [] OTHER -> NoDt

\* `expr in ["today", "yesterday"] or "days ago" in expr`
IsRelativeDay(expr) ==
    expr \in {ExprToday, ExprYesterday} \/ Contains(expr, ExprDaysAgo)

\* dt.replace(hour=0, minute=0, second=0, microsecond=0)
StartOfDay(dt) == [dt EXCEPT !.sec = 0, !.us = 0]

\* dt.replace(hour=23, minute=59, second=59, microsecond=999999)
EndOfDay(dt) == [dt EXCEPT !.sec = 86399, !.us = 999999]

\* a < b for two datetimes of the same awareness (wall clock order for naive)
DtLess(a, b) ==
    \/ a.day < b.day
    \/ a.day = b.day /\ a.sec < b.sec
    \/ a.day = b.day /\ a.sec = b.sec /\ a.us < b.us

\* the offset taken off the wall clock (astimezone(utc)) and then dropped
StripTzToUtc(dt) ==
    LET total == dt.day * SecondsPerDay + dt.sec - dt.off
    IN  [dt EXCEPT !.day = total \div SecondsPerDay,
                   !.sec = total % SecondsPerDay,
                   !.aware = FALSE, !.off = 0]

\* message_dt.replace(tzinfo=None): the wall clock is kept, the offset dropped
StripTz(dt) == [dt EXCEPT !.aware = FALSE, !.off = 0]

\* ------------------------------------------------------------ entry model

\* sessionId is None (or the attribute is missing); an identifier is Some("s1")
NoSession == [some |-> FALSE, v |-> ""]

TextItem(t) == [type |-> "text", text |-> t, name |-> ""]
ThinkingItem(t) == [type |-> "thinking", text |-> t, name |-> ""]
ToolUse(n) == [type |-> "tool_use", text |-> <<>>, name |-> n]
ToolResult == [type |-> "tool_result", text |-> <<>>, name |-> ""]
ImageItem == [type |-> "image", text |-> <<>>, name |-> ""]

NoContent == [form |-> "none", str |-> <<>>, items |-> <<>>]
StrContent(t) == [form |-> "str", str |-> t, items |-> <<>>]
ListContent(its) == [form |-> "list", str |-> <<>>, items |-> its]

\* a user, assistant or system entry
Entry(ty, sess, ts, content) ==
    [type |-> ty, sessionId |-> sess, timestamp |-> ts, content |-> content]

\* a SummaryTranscriptEntry has no sessionId, timestamp or message attribute:
\* getattr(m, ..., None) gives None for each
SummaryEntry == Entry("summary", NoSession, NoTs, NoContent)

IsSummary(m) == m.type = "summary"

\* ------------------------------------------------------- content helpers

\* extract_text_content: the text items of a list joined by "\n"; thinking
\* items are skipped and the other item types add nothing; str(content) for a
\* str; "" for None and for an empty str
extract_text_content(content) ==
    IF content.form = "none" THEN <<>>
    ELSE IF content.form = "list"
    THEN LET its == content.items
             textIdx == {k \in 1..Len(its) : its[k].type = "text"}
             parts == [k \in 1..Cardinality(textIdx) |->
                          SelectIdx(its, textIdx)[k].text]
         IN  JoinLines(parts)
    ELSE content.str

\* `not content or isinstance(content, str)`
NoItems(content) ==
    content.form \in {"none", "str"} \/ content.items = <<>>

_has_tool_activity(content) ==
    IF NoItems(content) THEN FALSE
    ELSE \E k \in 1..Len(content.items) :
            content.items[k].type \in {"tool_use", "tool_result", "thinking", "image"}

_contains_todowrite(content) ==
    IF NoItems(content) THEN FALSE
    ELSE \E k \in 1..Len(content.items) :
            /\ content.items[k].type = "tool_use"
            /\ content.items[k].name = "TodoWrite"

\* text.strip().splitlines()[0][:120]
TitleOf(text) == Take(FirstLine(Strip(text)), TitleMax)

\* ------------------------------------------- group_messages_into_spans

\* seq = [m for m in messages if not isinstance(m, SummaryTranscriptEntry)]
NonSummary(msgs) == SelectSeq(msgs, LAMBDA m : ~IsSummary(m))

\* get_dt(idx): reads seq
get_dt(sq, idx) ==
    LET ts == At(sq, idx).timestamp
    IN  IF TsTruthy(ts) THEN parse_timestamp(ts) ELSE NoDt

\* start_new_span(start_idx): reads seq; the index list starts as [start_idx]
start_new_span(sq, start_idx) ==
    LET m == At(sq, start_idx)
    IN  [start_index |-> start_idx,
         end_index |-> start_idx,
         message_indices |-> <<start_idx>>,
         session_id |-> m.sessionId,
         start_timestamp |-> m.timestamp,
         end_timestamp |-> m.timestamp,
         kind |-> "unknown",
         title |-> None,
         has_tooling |-> FALSE,
         has_todo |-> FALSE,
         all_system |-> TRUE]

\* the list fold_message reads its entry from: `m = messages[i]`, the
\* caller's unfiltered list, indexed by a position of seq
FoldSource(msgs, sq) == msgs

\* fold_message that lets every user text with content replace the title
fold_message_retitle(c, msgs, sq, idx) ==
    LET m == At(FoldSource(msgs, sq), idx)
        content == m.content
        text == extract_text_content(content)
        c1 == [c EXCEPT !.end_index = idx,
                        !.message_indices = Append(@, idx),
                        !.end_timestamp = m.timestamp,
                        !.has_tooling = @ \/ _has_tool_activity(content),
                        !.has_todo = @ \/ _contains_todowrite(content),
                        !.all_system = @ /\ m.type = "system"]
        c2 == IF m.type = "user" /\ Strip(text) # <<>>
              THEN [c1 EXCEPT !.title = Some(TitleOf(text))]
              ELSE c1
        c3 == IF ~c2.title.some /\ m.type = "assistant" /\ Strip(text) # <<>>
              THEN [c2 EXCEPT !.title = Some(TitleOf(text))]
              ELSE c2
    IN  c3

\* fold_message(i) applied to the accumulator c
fold_message(c, msgs, sq, idx) ==
    LET m == At(FoldSource(msgs, sq), idx)
        content == m.content
        text == extract_text_content(content)
        c1 == [c EXCEPT !.end_index = idx,
                        !.message_indices = Append(@, idx),
                        !.end_timestamp = m.timestamp,
                        !.has_tooling = @ \/ _has_tool_activity(content),
                        !.has_todo = @ \/ _contains_todowrite(content),
                        !.all_system = @ /\ m.type = "system"]
        c2 == IF ~c1.title.some /\ m.type = "user" /\ Strip(text) # <<>>
              THEN [c1 EXCEPT !.title = Some(TitleOf(text))]
              ELSE c1
        c3 == IF ~c2.title.some /\ m.type = "assistant" /\ Strip(text) # <<>>
              THEN [c2 EXCEPT !.title = Some(TitleOf(text))]
              ELSE c2
    IN  c3

\* the kind finalize_current_span computes from the flags
KindOf(c) ==
    IF c.has_todo THEN "todo"
    ELSE IF c.has_tooling THEN "tooling"
    ELSE IF c.all_system THEN "system"
    ELSE "chat"

\* SpanId with the indices taken relative to the span's start
SpanIdRelative(sess, s, e) ==
    (IF sess.some /\ sess.v # "" THEN sess.v ELSE "span")
        \o "-" \o ToString(s - s) \o "-" \o ToString(e - s)

\* f"{cur['session_id'] or 'span'}-{cur['start_index']}-{cur['end_index']}"
SpanId(sess, s, e) ==
    (IF sess.some /\ sess.v # "" THEN sess.v ELSE "span")
        \o "-" \o ToString(s) \o "-" \o ToString(e)

\* the Span that finalize_current_span appends
finalize_current_span(c) ==
    [id |-> SpanId(c.session_id, c.start_index, c.end_index),
     title |-> c.title,
     kind |-> KindOf(c),
     start_index |-> c.start_index,
     end_index |-> c.end_index,
     message_indices |-> c.message_indices,
     start_timestamp |-> c.start_timestamp,
     end_timestamp |-> c.end_timestamp,
     session_id |-> c.session_id]

\* (cur_dt - prev_dt) raises TypeError when exactly one of the two is aware
MixedAwareness(a, b) == a.aware # b.aware

\* the instant used by a subtraction: aware values are compared in UTC
UtcSec(d) == d.day * SecondsPerDay + d.sec - (IF d.aware THEN d.off ELSE 0)

\* DeltaExceeds with `>=` in place of `>`
DeltaExceedsInclusive(prev_dt, cur_dt, gap) ==
    UtcSec(cur_dt) - UtcSec(prev_dt) >= gap

\* (cur_dt - prev_dt).total_seconds() > gap, in whole seconds and microseconds
DeltaExceeds(prev_dt, cur_dt, gap) ==
    LET dsec == UtcSec(cur_dt) - UtcSec(prev_dt)
        dus == cur_dt.us - prev_dt.us
    IN  dsec > gap \/ (dsec = gap /\ dus > 0)

\* Boundary that also splits where a timestamp of the pair is missing
BoundaryOnMissingTs(sq, idx, gap) ==
    LET prev_dt == get_dt(sq, idx - 1)
        cur_dt == get_dt(sq, idx)
    IN  IF At(sq, idx - 1).sessionId # At(sq, idx).sessionId THEN TRUE
        ELSE IF prev_dt.some /\ cur_dt.some
        THEN DeltaExceeds(prev_dt.v, cur_dt.v, gap)
        ELSE TRUE

\* Boundary without the test of the sessionIds
BoundaryGapOnly(sq, idx, gap) ==
    LET prev_dt == get_dt(sq, idx - 1)
        cur_dt == get_dt(sq, idx)
    IN  IF prev_dt.some /\ cur_dt.some /\ ~MixedAwareness(prev_dt.v, cur_dt.v)
        THEN DeltaExceeds(prev_dt.v, cur_dt.v, gap)
        ELSE FALSE

\* `boundary` of one loop iteration at seq index idx >= 1
Boundary(sq, idx, gap) ==
    LET prev_dt == get_dt(sq, idx - 1)
        cur_dt == get_dt(sq, idx)
        prev_sess == At(sq, idx - 1).sessionId
        cur_sess == At(sq, idx).sessionId
    IN  IF prev_sess # cur_sess THEN TRUE
        ELSE IF prev_dt.some /\ cur_dt.some
        THEN DeltaExceeds(prev_dt.v, cur_dt.v, gap)
        ELSE FALSE

\* whether the iteration at idx raises TypeError at `cur_dt - prev_dt`
SubtractionRaises(sq, idx) ==
    LET prev_dt == get_dt(sq, idx - 1)
        cur_dt == get_dt(sq, idx)
    IN  /\ At(sq, idx - 1).sessionId = At(sq, idx).sessionId
        /\ prev_dt.some
        /\ cur_dt.some
        /\ MixedAwareness(prev_dt.v, cur_dt.v)

\* `cur` before line 191 binds it
UnboundCur ==
    [start_index |-> 0, end_index |-> 0, message_indices |-> <<>>,
     session_id |-> NoSession, start_timestamp |-> NoTs, end_timestamp |-> NoTs,
     kind |-> "unknown", title |-> None,
     has_tooling |-> FALSE, has_todo |-> FALSE, all_system |-> TRUE]

\* FreshSpans with the list shared between calls (a mutable default)
KeptSpans(old) == old

\* `spans: List[Span] = []` at the head of every call
FreshSpans(old) == <<>>

\* what the caller of the running call gets once it has ended
Outcome ==
    IF pc = "raised" THEN [how |-> "TypeError", spans |-> <<>>]
    ELSE [how |-> "returned", spans |-> spans]

NoOutcome == [how |-> "pending", spans |-> <<>>]

RECURSIVE SegLoop(_, _, _, _, _, _)
\* the loop of lines 249-268 from index idx on, then lines 270-273
SegLoop(msgs, sq, gap, idx, c, out) ==
    IF idx >= Len(sq)
    THEN [how |-> "returned", spans |-> Append(out, finalize_current_span(c))]
    ELSE IF SubtractionRaises(sq, idx)
    THEN [how |-> "TypeError", spans |-> <<>>]
    ELSE IF Boundary(sq, idx, gap)
    THEN SegLoop(msgs, sq, gap, idx + 1,
                 fold_message(start_new_span(sq, idx), msgs, sq, idx),
                 Append(out, finalize_current_span(c)))
    ELSE SegLoop(msgs, sq, gap, idx + 1, fold_message(c, msgs, sq, idx), out)

\* group_messages_into_spans(messages, gap_seconds) as one function
group_messages_into_spans(msgs, gap) ==
    IF NonSummary(msgs) = <<>>
    THEN [how |-> "returned", spans |-> <<>>]
    ELSE SegLoop(msgs, NonSummary(msgs), gap, 1,
                 fold_message(start_new_span(NonSummary(msgs), 0),
                              msgs, NonSummary(msgs), 0),
                 <<>>)

\* the variables of the segmenter while another function is explored
SegUnused ==
    /\ gap_seconds = DefaultGap
    /\ seq = <<>>
    /\ cur = UnboundCur
    /\ spans = <<>>
    /\ i = 0
    /\ calls = 1
    /\ first_spans = NoOutcome

\* the variables of the date filter while another function is explored
FilterUnused ==
    /\ from_dt = NoDt
    /\ to_dt = NoDt
    /\ filtered_messages = <<>>

NoCache == [some |-> FALSE, mtime |-> 0, entries |-> <<>>]

NoParse == [some |-> FALSE, from_date |-> NoExpr, to_date |-> NoExpr,
            mtime |-> 0, value |-> <<>>]

\* the variables of load_transcript while another function is explored
LoadUnused ==
    /\ file = <<>>
    /\ mtime = 0
    /\ cache = NoCache
    /\ cache_manager = FALSE
    /\ diagnostics = <<>>
    /\ served = "nothing"
    /\ cache_log = <<>>
    /\ parsed = NoParse
    /\ save_arg = None

\* the variables of process_entries_for_api while another function is
\* explored
ApiUnused ==
    /\ entries = <<>>
    /\ uuid_to_session = {}
    /\ session_summaries = {}
    /\ sessions = <<>>
    /\ seen_sessions = {}
    /\ seen_request_ids = {}
    /\ counted = {}

\* the variables of load_directory_transcripts while another function is
\* explored
DirUnused ==
    /\ jsonl_files = <<>>
    /\ all_messages = <<>>

\* ------------------------------------------------------------ input sets

TxtHello == <<"h", "e", "l", "l", "o">>
TxtHi == <<"h", "i">>
TxtBlank == <<" ">>
TxtLong == Repeat("x", TitleMax + 1)

S1 == Some("s1")
S2 == Some("s2")
T0 == Iso(0, 0, 0, "Z")

\* entries of one session that differ in timestamp
TimeEntries ==
    { Entry("user", S1, ts, StrContent(TxtHi)) :
        ts \in { T0, Iso(0, DefaultGap, 0, "Z"), Iso(0, 2 * DefaultGap + 1, 0, "Z"),
                 Iso(0, DefaultGap, 1, "Z"), NoTs, GarbageTs,
                 Iso(0, 0, 0, ""), Iso(0, DefaultGap + 3600, 0, "+01:00") } }
    \cup { SummaryEntry }

\* entries that differ in sessionId
SessionEntries ==
    { Entry("user", sess, T0, StrContent(TxtHi)) :
        sess \in { S1, S2, NoSession, Some("span"), Some(""), Some("s1-0") } }
    \cup { Entry("user", S1, Iso(0, DefaultGap + 1, 0, "Z"), StrContent(TxtHi)),
           SummaryEntry }

\* entries of one session and one instant that differ in type and content
ContentEntries ==
    { Entry("user", S1, T0, c) :
        c \in { StrContent(TxtHello), StrContent(TxtBlank), StrContent(TxtLong),
                ListContent(<<ToolResult>>),
                ListContent(<<TextItem(<<" ", "a">>), TextItem(<<"b", " ">>)>>) } }
    \cup { Entry("assistant", S1, T0, ListContent(its)) :
             its \in { <<TextItem(TxtHi)>>, <<ThinkingItem(TxtHello)>>,
                       <<ToolUse("TodoWrite"), ToolUse("Bash")>>,
                       <<ToolUse("Bash")>> } }
    \cup { Entry("system", S1, T0, NoContent), SummaryEntry }

SeqsUpTo(S, n) == UNION { [1..k -> S] : k \in 0..n }

\* the calls explored: an entry set and the gap_seconds values tried with it
SegInputs ==
    { [entries |-> TimeEntries, gaps |-> { DefaultGap, 0 }],
      [entries |-> SessionEntries, gaps |-> { DefaultGap }],
      [entries |-> ContentEntries, gaps |-> { DefaultGap }] }

\* ------------------------------------------------- segmentation: actions

InitSeg ==
    /\ \E U \in SegInputs :
          /\ messages \in SeqsUpTo(U.entries, MaxLen)
          /\ gap_seconds \in U.gaps
    /\ input0 = messages
    /\ seq = <<>>
    /\ cur = UnboundCur
    /\ spans = <<>>
    /\ i = 0
    /\ pc = "call"
    /\ calls = 1
    /\ first_spans = NoOutcome
    /\ from_date = NoExpr
    /\ to_date = NoExpr
    /\ pos = 0
    /\ ret = NoReturn
    /\ FilterUnused
    /\ LoadUnused
    /\ DirUnused
    /\ ApiUnused

\* lines 161-191 and 247: the early returns, seq, the first span, fold_message(0)
SegStart ==
    /\ pc = "call"
    /\ seq' = NonSummary(messages)
    /\ spans' = FreshSpans(spans)
    /\ IF NonSummary(messages) = <<>>
       THEN /\ pc' = "done"
            /\ UNCHANGED <<cur, i>>
       ELSE /\ cur' = fold_message(start_new_span(NonSummary(messages), 0),
                                   messages, NonSummary(messages), 0)
            /\ i' = 1
            /\ pc' = "loop"
    /\ UNCHANGED <<messages, gap_seconds, calls, first_spans, input0>>
    /\ UNCHANGED <<from_date, to_date, pos, ret, filterVars, loadVars, dirVars, apiVars>>

\* lines 249-268: one iteration of the loop
SegStep ==
    /\ pc = "loop"
    /\ i < Len(seq)
    /\ IF SubtractionRaises(seq, i)
       THEN /\ pc' = "raised"
            /\ UNCHANGED <<cur, spans, i>>
       ELSE /\ IF Boundary(seq, i, gap_seconds)
               THEN /\ spans' = Append(spans, finalize_current_span(cur))
                    /\ cur' = fold_message(start_new_span(seq, i), messages, seq, i)
               ELSE /\ spans' = spans
                    /\ cur' = fold_message(cur, messages, seq, i)
            /\ i' = i + 1
            /\ pc' = pc
    /\ UNCHANGED <<messages, gap_seconds, seq, calls, first_spans, input0>>
    /\ UNCHANGED <<from_date, to_date, pos, ret, filterVars, loadVars, dirVars, apiVars>>

\* lines 270-273: the last span is finalized and the list returned
SegFinish ==
    /\ pc = "loop"
    /\ i >= Len(seq)
    /\ spans' = Append(spans, finalize_current_span(cur))
    /\ pc' = "done"
    /\ UNCHANGED <<messages, gap_seconds, seq, cur, i, calls, first_spans, input0>>
    /\ UNCHANGED <<from_date, to_date, pos, ret, filterVars, loadVars, dirVars, apiVars>>

\* the caller keeps the outcome and calls again with the same arguments; the
\* locals of the ended call are garbage until the new call binds them
SegAgain ==
    /\ pc \in {"done", "raised"}
    /\ calls = 1
    /\ first_spans' = Outcome
    /\ calls' = calls + 1
    /\ pc' = "call"
    /\ UNCHANGED <<messages, gap_seconds, seq, cur, spans, i, input0>>
    /\ UNCHANGED <<from_date, to_date, pos, ret, filterVars, loadVars, dirVars, apiVars>>

NextSeg == SegStart \/ SegStep \/ SegFinish \/ SegAgain

SpecSeg == InitSeg /\ [][NextSeg]_vars

\* ------------------------------------------------- segmentation: claims

Returned == pc = "done"

Ended == pc \in {"done", "raised"}

\* the step-wise call and the function agree on every ended call
SegStepwiseAgrees ==
    Ended => Outcome = group_messages_into_spans(messages, gap_seconds)

RECURSIVE AllIndices(_)
\* the index lists of the spans, one after the other
AllIndices(sps) ==
    IF sps = <<>> THEN <<>>
    ELSE sps[1].message_indices \o AllIndices(Tail(sps))

NoRepeat(s) == \A a, b \in 1..Len(s) : a # b => s[a] # s[b]

\* the members of a span: the non-summary entries start_index..end_index
Members(sq, sp) == SubSeq(sq, sp.start_index + 1, sp.end_index + 1)

\* C1: the index lists of the returned spans, taken together, list the index
\* of every non-summary entry exactly once and nothing else
C1_Partition ==
    Returned =>
        /\ NoRepeat(AllIndices(spans))
        /\ { AllIndices(spans)[k] : k \in 1..Len(AllIndices(spans)) }
               = { k - 1 : k \in 1..Len(seq) }

\* the attributes of a span that C2 compares
SpanView(sq, sp) ==
    [members |-> Members(sq, sp), kind |-> sp.kind, title |-> sp.title,
     session_id |-> sp.session_id, start_timestamp |-> sp.start_timestamp,
     end_timestamp |-> sp.end_timestamp]

SpanViews(sq, sps) == [k \in 1..Len(sps) |-> SpanView(sq, sps[k])]

\* C2: the spans returned for a sequence are those returned for the same
\* sequence with its SummaryEntry records removed (same count, members, kind,
\* title, sessionId and start/end timestamps)
C2_SummariesTakeNoPart ==
    Returned =>
        SpanViews(seq, spans)
            = SpanViews(seq, group_messages_into_spans(NonSummary(messages),
                                                       gap_seconds).spans)

\* seconds since day 0 of a parseable timestamp, in UTC when it has a zone
TsSeconds(ts) == ts.day * SecondsPerDay + ts.sec - ZoneOffset(ts.zone)

Parses(ts) == ts.form = "iso"

\* the later timestamp minus the earlier one is strictly greater than gap
GapExceeded(a, b, gap) ==
    \/ TsSeconds(b) - TsSeconds(a) > gap
    \/ TsSeconds(b) - TsSeconds(a) = gap /\ b.us > a.us

\* what C3 says of the adjacent pair (idx - 1, idx) of seq
ShouldSplit(sq, idx, gap) ==
    \/ At(sq, idx - 1).sessionId # At(sq, idx).sessionId
    \/ /\ Parses(At(sq, idx - 1).timestamp)
       /\ Parses(At(sq, idx).timestamp)
       /\ GapExceeded(At(sq, idx - 1).timestamp, At(sq, idx).timestamp, gap)

StartsSpan(sps, idx) == \E k \in 1..Len(sps) : sps[k].start_index = idx

\* C3: entry idx starts a new span iff the sessionIds of (idx - 1, idx) differ
\* or both timestamps parse and their difference is strictly greater than
\* gap_seconds
C3_BoundaryIff ==
    Returned =>
        \A idx \in 1..(Len(seq) - 1) :
            StartsSpan(spans, idx) <=> ShouldSplit(seq, idx, gap_seconds)

\* a gap of exactly gap_seconds kept in one span, then a gap of gap_seconds + 1
\* split
C3_Witness ==
    /\ Returned
    /\ Len(seq) = 3
    /\ \A k \in 1..3 : Parses(seq[k].timestamp) /\ seq[k].sessionId = S1
    /\ TsSeconds(seq[2].timestamp) - TsSeconds(seq[1].timestamp) = gap_seconds
    /\ seq[2].timestamp.us = seq[1].timestamp.us
    /\ TsSeconds(seq[3].timestamp) - TsSeconds(seq[2].timestamp) = gap_seconds + 1
    /\ ~StartsSpan(spans, 1)
    /\ StartsSpan(spans, 2)

HasTodoWrite(m) ==
    /\ m.content.form = "list"
    /\ \E k \in 1..Len(m.content.items) :
          m.content.items[k].type = "tool_use" /\ m.content.items[k].name = "TodoWrite"

HasToolActivity(m) ==
    /\ m.content.form = "list"
    /\ \E k \in 1..Len(m.content.items) :
          m.content.items[k].type \in {"tool_use", "tool_result", "thinking", "image"}

\* the kind C4 gives a span with these members
PriorityKind(ms) ==
    IF \E k \in 1..Len(ms) : HasTodoWrite(ms[k]) THEN "todo"
    ELSE IF \E k \in 1..Len(ms) : HasToolActivity(ms[k]) THEN "tooling"
    ELSE IF \A k \in 1..Len(ms) : ms[k].type = "system" THEN "system"
    ELSE "chat"

\* C4: every returned span's kind follows the priority todo, tooling, system,
\* chat over what its member entries hold, and is never unknown
C4_KindPriority ==
    Returned =>
        \A k \in 1..Len(spans) :
            /\ spans[k].kind = PriorityKind(Members(seq, spans[k]))
            /\ spans[k].kind # "unknown"

\* the text of an entry (its text items joined, or its str content)
TextOf(m) == extract_text_content(m.content)

UserWithText(m) == m.type = "user" /\ Strip(TextOf(m)) # <<>>

\* C5: a span with a user entry of non-empty text is titled by the first 120
\* characters of the first line of the first such text, also when an assistant
\* entry with text comes earlier in the span
C5_UserTextWins ==
    Returned =>
        \A k \in 1..Len(spans) :
            LET ms == Members(seq, spans[k])
                us == { j \in 1..Len(ms) : UserWithText(ms[j]) }
            IN  us # {} =>
                    LET first == CHOOSE j \in us : \A h \in us : j <= h
                    IN  spans[k].title = Some(TitleOf(TextOf(ms[first])))

\* C8: no two spans returned by one call have the same id
C8_UniqueIds ==
    Returned =>
        \A a, b \in 1..Len(spans) : a # b => spans[a].id # spans[b].id

\* a session that recurs after another one, and an entry without sessionId
C8_Witness ==
    /\ Returned
    /\ Len(spans) = 3
    /\ spans[1].session_id = spans[3].session_id
    /\ spans[2].session_id = NoSession
    /\ spans[2].id = "span-1-1"

\* C9: a second call on the same sequence with the same gap_seconds ends as
\* the first did, with an equal span list, and the sequence is as the caller
\* passed it
C9_Deterministic ==
    (Ended /\ calls = 2) =>
        /\ Outcome = first_spans
        /\ messages = input0

\* a second call that returned several spans
C9_Witness ==
    /\ Returned
    /\ calls = 2
    /\ Len(spans) >= 2
    /\ first_spans.how = "returned"

\* the positions (0-based) of the non-summary entries in the caller's list
OriginalPositions(msgs) == { p \in 0..(Len(msgs) - 1) : ~IsSummary(msgs[p + 1]) }

IndexSet(sp) == Range(sp.message_indices) \cup { sp.start_index, sp.end_index }

\* the text "{sessionId or 'span'}-{start}-{end}"
IdText(sess, s, e) ==
    (IF sess.some /\ sess.v # "" THEN sess.v ELSE "span")
        \o "-" \o ToString(s) \o "-" \o ToString(e)

\* C17: every span's id is "{sessionId or 'span'}-{start_index}-{end_index}",
\* and its indices are positions in the sequence the caller passed: each
\* names a non-summary entry of the span's session there, start_index and
\* end_index name the first and the last one, and the spans' indices together
\* are the positions of all non-summary entries
C17_OriginalIndices ==
    Returned =>
        /\ \A k \in 1..Len(spans) :
              /\ spans[k].id = IdText(spans[k].session_id,
                                      spans[k].start_index, spans[k].end_index)
              /\ \A idx \in IndexSet(spans[k]) :
                    /\ idx \in OriginalPositions(messages)
                    /\ messages[idx + 1].sessionId = spans[k].session_id
                    /\ spans[k].start_index <= idx
                    /\ idx <= spans[k].end_index
              /\ spans[k].start_index \in OriginalPositions(messages)
              /\ messages[spans[k].start_index + 1].timestamp = spans[k].start_timestamp
        /\ UNION { IndexSet(spans[k]) : k \in 1..Len(spans) } = OriginalPositions(messages)

\* the accumulator cur holds a span that is being closed or was closed last
Closing ==
    /\ Len(seq) > 0
    /\ \/ pc = "done"
       \/ pc = "loop" /\ i >= Len(seq)
       \/ /\ pc = "loop"
          /\ i < Len(seq)
          /\ ~SubtractionRaises(seq, i)
          /\ Boundary(seq, i, gap_seconds)

\* the member entries of the span held in cur: the run of non-summary entries
\* from its first to its last
CurMembers == SubSeq(seq, cur.start_index + 1, cur.end_index + 1)

\* C20: when a span is closed, has_tooling, has_todo and all_system are what
\* its own member entries give: some member with a tool_use, tool_result,
\* thinking or image item; some member with a tool_use named TodoWrite; all
\* members system-typed
C20_FlagsOfMembers ==
    Closing =>
        /\ cur.has_tooling <=> \E k \in 1..Len(CurMembers) : HasToolActivity(CurMembers[k])
        /\ cur.has_todo <=> \E k \in 1..Len(CurMembers) : HasTodoWrite(CurMembers[k])
        /\ cur.all_system <=> \A k \in 1..Len(CurMembers) : CurMembers[k].type = "system"

\* the title one entry gives a span that has none: the first 120 characters
\* of the first line of its text when it is a user or assistant entry with
\* text, none otherwise
OwnTitle(m) ==
    IF m.type \in {"user", "assistant"} /\ Strip(TextOf(m)) # <<>>
    THEN Some(TitleOf(TextOf(m)))
    ELSE None

\* C21: once a fold has given the open span a title, no later fold into the
\* same span changes it; a span is closed with the title its accumulator
\* holds; the title of a new span comes from its first fold alone, not from
\* the span before
C21_TitleLocked ==
    [][ /\ (pc = "loop" /\ pc' = "loop" /\ cur'.start_index = cur.start_index
              /\ cur.title.some)
            => cur'.title = cur.title
        /\ (pc = "loop" /\ Len(spans') = Len(spans) + 1)
            => spans'[Len(spans')].title = cur.title
        /\ (pc = "loop" /\ pc' = "loop" /\ cur'.start_index # cur.start_index)
            => cur'.title \in { OwnTitle(At(seq, i)), OwnTitle(At(messages, i)) }
      ]_vars

\* a span titled by its first entry although a later member is a user entry
\* with another text
C21_Witness ==
    /\ pc = "done"
    /\ seq = messages
    /\ Len(spans) = 1
    /\ spans[1].title = OwnTitle(seq[1])
    /\ spans[1].title.some
    /\ \E j \in 2..Len(seq) :
          UserWithText(seq[j]) /\ OwnTitle(seq[j]) # spans[1].title

AssistantWithText(m) == m.type = "assistant" /\ Strip(TextOf(m)) # <<>>

\* C22: a span without a user entry with text is titled by the first 120
\* characters of the first line of its first assistant entry with text, and
\* has no title when there is none either; a title is never empty, never
\* longer than 120 characters and holds no line break
C22_AssistantFallback ==
    Returned =>
        \A k \in 1..Len(spans) :
            LET ms == Members(seq, spans[k])
                as == { j \in 1..Len(ms) : AssistantWithText(ms[j]) }
            IN  /\ (\A j \in 1..Len(ms) : ~UserWithText(ms[j])) =>
                       IF as = {} THEN spans[k].title = None
                       ELSE spans[k].title =
                                OwnTitle(ms[CHOOSE j \in as : \A h \in as : j <= h])
                /\ spans[k].title.some =>
                       /\ spans[k].title.v # <<>>
                       /\ Len(spans[k].title.v) <= TitleMax
                       /\ \A c \in Range(spans[k].title.v) : ~IsLineBreak(c)

\* C23: every span has start_index <= end_index, message_indices the run
\* start_index..end_index, each index once, and the timestamps of its first
\* and last member entries
C23_SpanShape ==
    Returned =>
        \A k \in 1..Len(spans) :
            /\ spans[k].start_index <= spans[k].end_index
            /\ spans[k].message_indices =
                   [j \in 1..(spans[k].end_index - spans[k].start_index + 1) |->
                       spans[k].start_index + j - 1]
            /\ spans[k].start_timestamp = At(seq, spans[k].start_index).timestamp
            /\ spans[k].end_timestamp = At(seq, spans[k].end_index).timestamp

\* C25: an adjacent pair of one session in which a timestamp is absent or
\* does not parse is never split
C25_NoSplitWithoutTimes ==
    Returned =>
        \A idx \in 1..(Len(seq) - 1) :
            ( /\ At(seq, idx - 1).sessionId = At(seq, idx).sessionId
              /\ \/ ~Parses(At(seq, idx - 1).timestamp)
                 \/ ~Parses(At(seq, idx).timestamp) )
                => ~StartsSpan(spans, idx)

\* an entry without timestamp between two entries of its session that are
\* more than gap_seconds apart: one span
C25_Witness ==
    /\ pc = "done"
    /\ Len(seq) = 3
    /\ Parses(seq[1].timestamp) /\ Parses(seq[3].timestamp)
    /\ seq[2].timestamp = NoTs
    /\ GapExceeded(seq[1].timestamp, seq[3].timestamp, gap_seconds)
    /\ Len(spans) = 1
    /\ spans[1].end_index = 2

\* C28: the spans are in ascending order of start_index, each starts right
\* after the one before ends, and the member entries of a span all carry the
\* span's session_id
C28_OrderedSingleSession ==
    Returned =>
        /\ \A k \in 1..(Len(spans) - 1) :
              /\ spans[k].start_index < spans[k + 1].start_index
              /\ spans[k + 1].start_index = spans[k].end_index + 1
        /\ \A k \in 1..Len(spans) :
              \A j \in 1..Len(Members(seq, spans[k])) :
                  Members(seq, spans[k])[j].sessionId = spans[k].session_id

\* three spans, the first and the last of the same session
C28_Witness ==
    /\ pc = "done"
    /\ Len(spans) = 3
    /\ spans[1].session_id = spans[3].session_id
    /\ spans[1].session_id # spans[2].session_id

\* ------------------------------------------------ filter_messages_by_date

\* Unparsed that lets every result of the parser pass
UnparsedIgnored(resolved) == FALSE

\* lines 77 and 85: `if not from_dt`, `if not to_dt` on the parser's result
Unparsed(resolved) == ~resolved.some

\* ResolveFrom without the floor to the start of the day
ResolveFromUnfloored(expr) == dateparser_parse(expr.v)

\* lines 75-81: the from bound as resolved and normalised
ResolveFrom(expr) ==
    IF IsRelativeDay(expr.v)
    THEN Some(StartOfDay(dateparser_parse(expr.v).v))
    ELSE dateparser_parse(expr.v)

\* lines 83-89: the to bound as resolved and normalised
ResolveTo(expr) ==
    IF IsRelativeDay(expr.v)
    THEN Some(EndOfDay(dateparser_parse(expr.v).v))
    ELSE dateparser_parse(expr.v)

TxtFromError == <<"C", "o", "u", "l", "d", " ", "n", "o", "t", " ", "p", "a", "r", "s", "e", " ",
                  "f", "r", "o", "m", "-", "d", "a", "t", "e", ":", " ">>
TxtToError == <<"C", "o", "u", "l", "d", " ", "n", "o", "t", " ", "p", "a", "r", "s", "e", " ",
                "t", "o", "-", "d", "a", "t", "e", ":", " ">>

\* BeforeFrom with `<=` in place of `<`
BeforeFromInclusive(message_dt, bound) ==
    bound.some /\ (DtLess(message_dt, bound.v) \/ message_dt = bound.v)

\* line 111: `from_dt and message_dt < from_dt`
BeforeFrom(message_dt, bound) == bound.some /\ DtLess(message_dt, bound.v)

\* line 113: `to_dt and message_dt > to_dt`
AfterTo(message_dt, bound) == bound.some /\ DtLess(bound.v, message_dt)

\* FilterVerdict without the SummaryTranscriptEntry case: a summary goes the
\* way of an entry without a timestamp
FilterVerdictNoSummaryCase(m, lo, hi) ==
    IF ~TsTruthy(m.timestamp) THEN "skip"
    ELSE IF ~parse_timestamp(m.timestamp).some THEN "skip"
    ELSE LET message_dt == StripTz(parse_timestamp(m.timestamp).v)
         IN  IF lo.some /\ lo.v.aware THEN "raise"
             ELSE IF BeforeFrom(message_dt, lo) THEN "skip"
             ELSE IF hi.some /\ hi.v.aware THEN "raise"
             ELSE IF AfterTo(message_dt, hi) THEN "skip"
             ELSE "keep"

\* FilterVerdict that keeps an entry whose timestamp does not parse
FilterVerdictKeepsUnparsed(m, lo, hi) ==
    IF IsSummary(m) THEN "keep"
    ELSE IF ~TsTruthy(m.timestamp) THEN "skip"
    ELSE IF ~parse_timestamp(m.timestamp).some THEN "keep"
    ELSE LET message_dt == StripTz(parse_timestamp(m.timestamp).v)
         IN  IF lo.some /\ lo.v.aware THEN "raise"
             ELSE IF BeforeFrom(message_dt, lo) THEN "skip"
             ELSE IF hi.some /\ hi.v.aware THEN "raise"
             ELSE IF AfterTo(message_dt, hi) THEN "skip"
             ELSE "keep"

\* what one pass of the loop body (lines 92-116) does with message m:
\* "keep", "skip", or "raise" when a naive time meets an aware bound
FilterVerdict(m, lo, hi) ==
    IF IsSummary(m) THEN "keep"
    ELSE IF ~TsTruthy(m.timestamp) THEN "skip"
    ELSE IF ~parse_timestamp(m.timestamp).some THEN "skip"
    ELSE LET message_dt == StripTz(parse_timestamp(m.timestamp).v)
         IN  IF lo.some /\ lo.v.aware THEN "raise"
             ELSE IF BeforeFrom(message_dt, lo) THEN "skip"
             ELSE IF hi.some /\ hi.v.aware THEN "raise"
             ELSE IF AfterTo(message_dt, hi) THEN "skip"
             ELSE "keep"

\* the kept message put in front of the result list
KeepMessageFront(out, m) == <<m>> \o out

\* filtered_messages.append(message)
KeepMessage(out, m) == Append(out, m)

TxtCompareError == <<"c", "a", "n", "'", "t", " ", "c", "o", "m", "p", "a", "r", "e">>

RECURSIVE FilterLoop(_, _, _, _, _)
\* the loop of lines 92-116 from position k on, then line 118
FilterLoop(msgs, lo, hi, k, out) ==
    IF k >= Len(msgs) THEN Returns(out)
    ELSE IF FilterVerdict(msgs[k + 1], lo, hi) = "raise"
    THEN Raises("TypeError", TxtCompareError)
    ELSE FilterLoop(msgs, lo, hi, k + 1,
                    IF FilterVerdict(msgs[k + 1], lo, hi) = "keep"
                    THEN KeepMessage(out, msgs[k + 1]) ELSE out)

\* filter_messages_by_date(messages, from_date, to_date) as one function
filter_messages_by_date(msgs, from, to) ==
    IF ~Truthy(from) /\ ~Truthy(to) THEN Returns(msgs)
    ELSE IF Truthy(from) /\ Unparsed(dateparser_parse(from.v))
    THEN Raises("ValueError", TxtFromError \o from.v)
    ELSE IF Truthy(to) /\ Unparsed(dateparser_parse(to.v))
    THEN Raises("ValueError", TxtToError \o to.v)
    ELSE FilterLoop(msgs,
                    IF Truthy(from) THEN ResolveFrom(from) ELSE NoDt,
                    IF Truthy(to) THEN ResolveTo(to) ELSE NoDt,
                    0, <<>>)

\* entries that differ in timestamp around the day bounds
FilterEntries ==
    { Entry("user", S1, ts, StrContent(TxtHi)) :
        ts \in { Iso(0, 86399, 999999, "Z"), Iso(1, 0, 0, "Z"), Iso(1, 0, 0, "+01:00"),
                 Iso(1, 86399, 999999, ""), Iso(2, 0, 0, "Z"),
                 NoTs, EmptyTs, GarbageTs } }
    \cup { SummaryEntry }

Expr(text) == Some(text)

\* the (from_date, to_date) pairs explored
FilterRanges ==
    { <<NoExpr, NoExpr>>, <<Expr(<<>>), NoExpr>>,
      <<Expr(ExprYesterday), NoExpr>>, <<NoExpr, Expr(ExprYesterday)>>,
      <<Expr(ExprYesterday), Expr(ExprYesterday)>>,
      <<Expr(Expr2DaysAgo), Expr(ExprToday)>>,
      <<Expr(Expr1DayAgo), Expr(<<>>)>>, <<NoExpr, Expr(Expr1DayAgo)>>,
      <<Expr(ExprAbsolute), NoExpr>>, <<Expr(ExprYesterday), Expr(ExprAbsolute)>>,
      <<Expr(ExprGarbage), Expr(ExprYesterday)>>, <<Expr(ExprToday), Expr(ExprGarbage)>>,
      <<Expr(ExprAbsoluteZ), NoExpr>>, <<Expr(ExprYesterday), Expr(ExprAbsoluteZ)>> }

InitFilter ==
    /\ messages \in SeqsUpTo(FilterEntries, MaxFilterLen)
    /\ \E r \in FilterRanges : from_date = r[1] /\ to_date = r[2]
    /\ input0 = messages
    /\ from_dt = NoDt
    /\ to_dt = NoDt
    /\ filtered_messages = <<>>
    /\ pos = 0
    /\ ret = NoReturn
    /\ pc = "call"
    /\ SegUnused
    /\ LoadUnused
    /\ DirUnused
    /\ ApiUnused

\* lines 68-91: the identity return, the two bounds, the empty result list
FilterStart ==
    /\ pc = "call"
    /\ IF ~Truthy(from_date) /\ ~Truthy(to_date)
       THEN /\ ret' = Returns(messages)
            /\ pc' = "done"
            /\ UNCHANGED <<from_dt, to_dt, filtered_messages, pos>>
       ELSE IF Truthy(from_date) /\ Unparsed(dateparser_parse(from_date.v))
       THEN /\ ret' = Raises("ValueError", TxtFromError \o from_date.v)
            /\ pc' = "raised"
            /\ UNCHANGED <<from_dt, to_dt, filtered_messages, pos>>
       ELSE IF Truthy(to_date) /\ Unparsed(dateparser_parse(to_date.v))
       THEN /\ ret' = Raises("ValueError", TxtToError \o to_date.v)
            /\ pc' = "raised"
            /\ from_dt' = (IF Truthy(from_date) THEN ResolveFrom(from_date) ELSE NoDt)
            /\ UNCHANGED <<to_dt, filtered_messages, pos>>
       ELSE /\ from_dt' = (IF Truthy(from_date) THEN ResolveFrom(from_date) ELSE NoDt)
            /\ to_dt' = (IF Truthy(to_date) THEN ResolveTo(to_date) ELSE NoDt)
            /\ filtered_messages' = <<>>
            /\ pos' = 0
            /\ pc' = "loop"
            /\ ret' = ret
    /\ UNCHANGED <<messages, input0, from_date, to_date, segVars, loadVars, dirVars, apiVars>>

\* lines 92-116: the loop body for the next message
FilterStep ==
    /\ pc = "loop"
    /\ pos < Len(messages)
    /\ LET verdict == FilterVerdict(messages[pos + 1], from_dt, to_dt)
       IN  IF verdict = "raise"
           THEN /\ ret' = Raises("TypeError", TxtCompareError)
                /\ pc' = "raised"
                /\ UNCHANGED <<filtered_messages, pos>>
           ELSE /\ filtered_messages' =
                       (IF verdict = "keep"
                        THEN KeepMessage(filtered_messages, messages[pos + 1])
                        ELSE filtered_messages)
                /\ pos' = pos + 1
                /\ UNCHANGED <<ret, pc>>
    /\ UNCHANGED <<messages, input0, from_date, to_date, from_dt, to_dt, segVars, loadVars, dirVars, apiVars>>

\* line 118
FilterFinish ==
    /\ pc = "loop"
    /\ pos >= Len(messages)
    /\ ret' = Returns(filtered_messages)
    /\ pc' = "done"
    /\ UNCHANGED <<messages, input0, from_date, to_date, pos, filterVars, segVars, loadVars, dirVars, apiVars>>

NextFilter == FilterStart \/ FilterStep \/ FilterFinish

SpecFilter == InitFilter /\ [][NextFilter]_vars

\* -------------------------------------------------------- filter: claims

\* the step-wise call and the function agree on every ended call
FilterStepwiseAgrees ==
    pc \in {"done", "raised"} => ret = filter_messages_by_date(messages, from_date, to_date)

BoundGiven == Truthy(from_date) \/ Truthy(to_date)

\* the wall clock time of a parseable timestamp
EntryTime(ts) == Naive(ts.day, ts.sec, ts.us)

AtOrAfter(a, b) == a = b \/ DtLess(b, a)

InRange(ts, lo, hi) ==
    /\ (~lo.some \/ AtOrAfter(EntryTime(ts), StripTz(lo.v)))
    /\ (~hi.some \/ AtOrAfter(StripTz(hi.v), EntryTime(ts)))

\* C10: with a bound given, a non-summary entry with a parseable timestamp is
\* kept iff (no from or entry_time >= from) and (no to or entry_time <= to)
C10_InclusiveBounds ==
    (pc = "done" /\ BoundGiven) =>
        \A k \in 1..Len(messages) :
            (~IsSummary(messages[k]) /\ Parses(messages[k].timestamp)) =>
                (messages[k] \in Range(ret.value)
                    <=> InRange(messages[k].timestamp, from_dt, to_dt))

\* an entry exactly at from and one exactly at to are kept, one before from
\* is dropped
C10_Witness ==
    /\ pc = "done"
    /\ from_dt.some
    /\ to_dt.some
    /\ \E a, b \in Range(ret.value) :
          /\ Parses(a.timestamp) /\ EntryTime(a.timestamp) = from_dt.v
          /\ Parses(b.timestamp) /\ EntryTime(b.timestamp) = to_dt.v
    /\ \E m \in Range(messages) :
          /\ Parses(m.timestamp)
          /\ DtLess(EntryTime(m.timestamp), from_dt.v)
          /\ m \notin Range(ret.value)

\* the summaries of a sequence, in order
Summaries(s) == SelectSeq(s, IsSummary)

\* C11: with a bound given, a call that returns keeps every SummaryEntry of
\* the input, whatever the range and the other entries' timestamps
C11_SummariesKept ==
    (pc = "done" /\ BoundGiven) => Summaries(ret.value) = Summaries(messages)

\* a summary is kept by a call that drops an out-of-range entry
C11_Witness ==
    /\ pc = "done"
    /\ BoundGiven
    /\ SummaryEntry \in Range(ret.value)
    /\ \E m \in Range(messages) : Parses(m.timestamp) /\ m \notin Range(ret.value)

\* a from/to argument that is not given: None, or the empty text
Absent(opt) == ~opt.some \/ opt.v = <<>>

\* C12: with from and to both absent the call returns the input sequence as
\* it is, entries without a usable timestamp included, and resolves no bound
C12_IdentityWhenNoBounds ==
    (pc \in {"loop", "done", "raised"} /\ Absent(from_date) /\ Absent(to_date)) =>
        /\ pc = "done"
        /\ ret = Returns(input0)
        /\ messages = input0
        /\ from_dt = NoDt
        /\ to_dt = NoDt
        /\ pos = 0

\* the identity return with entries whose timestamp is absent or garbage
C12_Witness ==
    /\ pc = "done"
    /\ Absent(from_date) /\ Absent(to_date)
    /\ \E a, b \in Range(ret.value) :
          /\ ~IsSummary(a) /\ a.timestamp = NoTs
          /\ b.timestamp = GarbageTs
    /\ SummaryEntry \in Range(ret.value)

\* an expression that is given and that the date parser cannot read
Offending(opt) == opt.some /\ opt.v # <<>> /\ ~dateparser_parse(opt.v).some

\* C13: a from or to expression that cannot be parsed makes the call fail with
\* an error that names that expression, with no entries returned and no entry
\* examined
C13_BadExpressionFatal ==
    (pc \in {"loop", "done", "raised"} /\ (Offending(from_date) \/ Offending(to_date))) =>
        /\ pc = "raised"
        /\ ret.how = "ValueError"
        /\ ret.value = <<>>
        /\ Contains(ret.error,
                    IF Offending(from_date) THEN from_date.v ELSE to_date.v)
        /\ pos = 0
        /\ filtered_messages = <<>>

\* the to expression is the offending one and the input holds a summary and a
\* timestamped entry
C13_Witness ==
    /\ pc = "raised"
    /\ ~Offending(from_date)
    /\ Offending(to_date)
    /\ SummaryEntry \in Range(messages)
    /\ \E m \in Range(messages) : Parses(m.timestamp)

\* the relative single-day expressions: today, yesterday, N days ago
RelativeDayTexts == { ExprToday, ExprYesterday, Expr2DaysAgo }

\* the bound C14 gives for an expression: the parser's day at the given time
\* of day for a relative single-day expression, the parser's instant otherwise
DayBound(text, sec, us) ==
    IF text \in RelativeDayTexts
    THEN Some(Naive(dateparser_parse(text).v.day, sec, us))
    ELSE dateparser_parse(text)

Timed(s) == SelectSeq(s, LAMBDA m : IsSummary(m) \/ Parses(m.timestamp))

\* C18: with a bound given, every non-summary entry whose timestamp is absent
\* or does not parse is dropped, and the call ends as it does on the input
\* without those entries: no error comes of them and no other entry is kept
\* or dropped because of them
C18_UntimedDropped ==
    (pc \in {"done", "raised"} /\ BoundGiven) =>
        /\ ret = filter_messages_by_date(Timed(messages), from_date, to_date)
        /\ \A k \in 1..Len(messages) :
               (~IsSummary(messages[k]) /\ ~Parses(messages[k].timestamp))
                   => messages[k] \notin Range(ret.value)

\* an entry without timestamp and one with a garbage timestamp are dropped
\* next to an entry that is kept
C18_Witness ==
    /\ pc = "done"
    /\ BoundGiven
    /\ \E a, b \in Range(messages) :
          /\ ~IsSummary(a) /\ a.timestamp.form \in {"none", "empty"}
          /\ b.timestamp = GarbageTs
    /\ \E m \in Range(ret.value) : Parses(m.timestamp)

\* the entry with the offset of its timestamp taken away, the digits kept
Unzoned(m) ==
    IF ~IsSummary(m) /\ m.timestamp.form = "iso"
    THEN [m EXCEPT !.timestamp.zone = ""]
    ELSE m

UnzonedAll(s) == [k \in 1..Len(s) |-> Unzoned(s[k])]

SameWallClock(a, b) ==
    /\ Parses(a.timestamp) /\ Parses(b.timestamp)
    /\ EntryTime(a.timestamp) = EntryTime(b.timestamp)

\* C26: with a bound given, the offset of a timestamp has no part in the
\* result: the call keeps the entries it keeps of the same input written
\* without offsets, and two entries with the same wall-clock digits are
\* kept or dropped together
C26_OffsetIgnored ==
    (pc = "done" /\ BoundGiven) =>
        /\ UnzonedAll(ret.value) =
               filter_messages_by_date(UnzonedAll(messages), from_date, to_date).value
        /\ \A a, b \in { m \in Range(messages) : ~IsSummary(m) } :
               SameWallClock(a, b) =>
                   (a \in Range(ret.value) <=> b \in Range(ret.value))

\* an entry at +01:00 whose wall clock is the from bound itself, one hour
\* before the bound as an instant of the bound's clock, is kept
C26_Witness ==
    /\ pc = "done"
    /\ from_dt.some
    /\ \E a, b \in Range(ret.value) :
          /\ SameWallClock(a, b)
          /\ a.timestamp.zone = "+01:00" /\ b.timestamp.zone = "Z"
          /\ EntryTime(a.timestamp) = from_dt.v

RECURSIVE IsSubsequence(_, _)
\* sub is s with some of its elements left out, the others in their order
IsSubsequence(sub, s) ==
    IF sub = <<>> THEN TRUE
    ELSE IF s = <<>> THEN FALSE
    ELSE IF Head(sub) = Head(s) THEN IsSubsequence(Tail(sub), Tail(s))
    ELSE IsSubsequence(sub, Tail(s))

\* C29: the list of the caller is never changed, the result list built so
\* far is a subsequence of the messages already passed, and the list
\* returned is a subsequence of the input
C29_Subsequence ==
    /\ messages = input0
    /\ pc = "loop" => IsSubsequence(filtered_messages, Take(input0, pos))
    /\ pc = "done" => IsSubsequence(ret.value, input0)

\* a call with a bound that keeps two different entries and drops a third
C29_Witness ==
    /\ pc = "done"
    /\ BoundGiven
    /\ Len(input0) = 3
    /\ Len(ret.value) = 2
    /\ ret.value[1] # ret.value[2]
    /\ ret.value = <<input0[1], input0[3]>>

\* ------------------------------------------------------- load_transcript

\* a source line: what json.loads makes of its stripped text ("blank" when
\* nothing is left, "invalid" when it raises JSONDecodeError, "nonobject" for
\* JSON that is no dict, "object"), the object's "type" field, and what
\* parse_transcript_entry does with the object
Line(json, type, convert, entry) ==
    [json |-> json, type |-> type, convert |-> convert, entry |-> entry]

LBlank == Line("blank", "", "", SummaryEntry)
LBadJson == Line("invalid", "", "", SummaryEntry)
LScalar == Line("nonobject", "", "", SummaryEntry)
LObject(type, convert, entry) == Line("object", type, convert, entry)

\* line 318
RecognisedTypes == {"user", "assistant", "summary", "system"}

\* parse_transcript_entry(entry_dict): the Entry, or the exception raised: a
\* pydantic validation error, another ValueError, or any other exception
parse_transcript_entry(line) ==
    IF line.convert = "ok" THEN [raised |-> "no", entry |-> line.entry]
    ELSE [raised |-> line.convert, entry |-> line.entry]

\* LineOutcome with `except ValueError` tried before `except
\* json.JSONDecodeError` (a JSONDecodeError is a ValueError)
LineOutcomeValueErrorFirst(line) ==
    IF line.json = "blank" THEN [append |-> FALSE, diag |-> "none"]
    ELSE IF line.json = "invalid" THEN [append |-> FALSE, diag |-> "value_error"]
    ELSE IF line.json = "nonobject" THEN [append |-> FALSE, diag |-> "not_object"]
    ELSE IF line.type \notin RecognisedTypes
    THEN [append |-> FALSE, diag |-> "unrecognised"]
    ELSE IF parse_transcript_entry(line).raised = "no"
    THEN [append |-> TRUE, diag |-> "none"]
    ELSE IF parse_transcript_entry(line).raised = "validation"
    THEN [append |-> FALSE, diag |-> "validation"]
    ELSE IF parse_transcript_entry(line).raised = "value_error"
    THEN [append |-> FALSE, diag |-> "value_error"]
    ELSE [append |-> FALSE, diag |-> "unexpected"]

\* LineOutcome without the print for an unrecognised type
LineOutcomeSilentType(line) ==
    IF line.json = "blank" THEN [append |-> FALSE, diag |-> "none"]
    ELSE IF line.json = "invalid" THEN [append |-> FALSE, diag |-> "json_decode"]
    ELSE IF line.json = "nonobject" THEN [append |-> FALSE, diag |-> "not_object"]
    ELSE IF line.type \notin RecognisedTypes
    THEN [append |-> FALSE, diag |-> "none"]
    ELSE IF parse_transcript_entry(line).raised = "no"
    THEN [append |-> TRUE, diag |-> "none"]
    ELSE [append |-> FALSE, diag |-> parse_transcript_entry(line).raised]

\* lines 306-349 for one line: whether an entry is appended, and the kind of
\* the diagnostic printed ("none" when nothing is printed)
LineOutcome(line) ==
    IF line.json = "blank" THEN [append |-> FALSE, diag |-> "none"]
    ELSE IF line.json = "invalid" THEN [append |-> FALSE, diag |-> "json_decode"]
    ELSE IF line.json = "nonobject" THEN [append |-> FALSE, diag |-> "not_object"]
    ELSE IF line.type \notin RecognisedTypes
    THEN [append |-> FALSE, diag |-> "unrecognised"]
    ELSE IF parse_transcript_entry(line).raised = "no"
    THEN [append |-> TRUE, diag |-> "none"]
    ELSE IF parse_transcript_entry(line).raised = "validation"
    THEN [append |-> FALSE, diag |-> "validation"]
    ELSE IF parse_transcript_entry(line).raised = "value_error"
    THEN [append |-> FALSE, diag |-> "value_error"]
    ELSE [append |-> FALSE, diag |-> "unexpected"]

\* the argument jsonl_path
SourcePath == "a.jsonl"

Diagnostic(line_no, kind) == [source |-> SourcePath, line_no |-> line_no, kind |-> kind]

\* CacheManager.load_cached_entries(jsonl_path): the saved sequence while the
\* source is as it was when saved, None otherwise
load_cached_entries(c, mt) ==
    IF c.some /\ c.mtime = mt THEN { Some(c.entries) } ELSE { NoExpr }

\* CacheManager.load_cached_entries_filtered(jsonl_path, from_date, to_date):
\* None, or the saved entries of the requested range when the source is
\* unchanged and the cache can serve the range
load_cached_entries_filtered(c, mt, from, to) ==
    IF c.some /\ c.mtime = mt /\ filter_messages_by_date(c.entries, from, to).how = "returned"
    THEN { NoExpr, Some(filter_messages_by_date(c.entries, from, to).value) }
    ELSE { NoExpr }

\* CacheManager.save_cached_entries(jsonl_path, entries): the cache afterwards,
\* either holding the entries or, when persisting failed, as it was
save_cached_entries(c, mt, saved) ==
    { [some |-> TRUE, mtime |-> mt, entries |-> saved], c }

\* SaveArgument that hands over the entries of the requested range only
SaveArgumentFiltered(msgs, from, to) ==
    IF filter_messages_by_date(msgs, from, to).how = "returned"
    THEN filter_messages_by_date(msgs, from, to).value
    ELSE msgs

\* line 353: the second argument of save_cached_entries, the list the loop
\* built, whatever from_date and to_date are
SaveArgument(msgs, from, to) == msgs

\* LoadReturn that hands back what the cache holds after the save
LoadReturnFromCache(msgs, c) == IF c.some THEN c.entries ELSE <<>>

\* line 355: `return messages`, the list the loop built, whatever the cache
\* holds after line 353
LoadReturn(msgs, c) == msgs

\* lines 285-297: the lookup a call with a cache manager makes first
CacheLookup(c, mt, from, to) ==
    IF Truthy(from) \/ Truthy(to)
    THEN load_cached_entries_filtered(c, mt, from, to)
    ELSE load_cached_entries(c, mt)

LookupName(from, to) ==
    IF Truthy(from) \/ Truthy(to) THEN "load_filtered" ELSE "load"

EntryA == Entry("user", S1, Iso(0, 86399, 999999, "Z"), StrContent(TxtHi))
EntryB == Entry("user", S1, Iso(1, 0, 0, "Z"), StrContent(TxtHello))

LineChoices ==
    { LBlank, LBadJson, LScalar,
      LObject("progress", "", SummaryEntry),
      LObject("user", "validation", SummaryEntry),
      LObject("assistant", "unexpected", SummaryEntry),
      LObject("user", "ok", EntryA),
      LObject("user", "ok", EntryB) }

\* the (from_date, to_date) pairs a load is called with
LoadRanges == { <<NoExpr, NoExpr>>, <<Expr(ExprYesterday), NoExpr>> }

InitLoad ==
    /\ file = <<>>
    /\ mtime = 0
    /\ cache = NoCache
    /\ cache_manager = FALSE
    /\ diagnostics = <<>>
    /\ served = "nothing"
    /\ cache_log = <<>>
    /\ parsed = NoParse
    /\ save_arg = None
    /\ messages = <<>>
    /\ input0 = <<>>
    /\ from_date = NoExpr
    /\ to_date = NoExpr
    /\ pos = 0
    /\ ret = NoReturn
    /\ pc = "idle"
    /\ SegUnused
    /\ FilterUnused
    /\ DirUnused
    /\ ApiUnused

\* between two calls the transcript grows by one line (the format is
\* append-only); pc = "done" is left: the last result is of the older source
AppendLine ==
    /\ pc \in {"idle", "done"}
    /\ Len(file) < MaxLines
    /\ \E l \in LineChoices : file' = Append(file, l)
    /\ mtime' = mtime + 1
    /\ pc' = "idle"
    /\ UNCHANGED <<messages, input0, from_date, to_date, pos, ret, segVars, filterVars>>
    /\ UNCHANGED <<cache, cache_manager, diagnostics, served, cache_log, parsed, save_arg>>
    /\ UNCHANGED <<dirVars, apiVars>>

\* lines 284-300: a call of load_transcript up to the opening of the source
LoadCall ==
    /\ pc \in {"idle", "done"}
    /\ \E cm \in BOOLEAN, r \in LoadRanges :
          /\ cache_manager' = cm
          /\ from_date' = r[1]
          /\ to_date' = r[2]
          /\ \E cached_entries \in
                   (IF cm THEN CacheLookup(cache, mtime, r[1], r[2]) ELSE { NoExpr }) :
                /\ cache_log' = (IF cm THEN << LookupName(r[1], r[2]) >> ELSE <<>>)
                /\ IF cached_entries.some
                   THEN /\ ret' = Returns(cached_entries.v)
                        /\ served' = "cache"
                        /\ pc' = "done"
                   ELSE /\ ret' = NoReturn
                        /\ served' = "nothing"
                        /\ pc' = "parse"
    /\ messages' = <<>>
    /\ diagnostics' = <<>>
    /\ pos' = 0
    /\ save_arg' = None
    /\ UNCHANGED <<input0, segVars, filterVars, file, mtime, cache, parsed>>
    /\ UNCHANGED <<dirVars, apiVars>>

\* lines 305-349: one line of the source
LoadLine ==
    /\ pc = "parse"
    /\ pos < Len(file)
    /\ LET line == file[pos + 1]
           out == LineOutcome(line)
       IN  /\ messages' = (IF out.append
                           THEN Append(messages, parse_transcript_entry(line).entry)
                           ELSE messages)
           /\ diagnostics' = (IF out.diag # "none"
                              THEN Append(diagnostics, Diagnostic(pos, out.diag))
                              ELSE diagnostics)
    /\ pos' = pos + 1
    /\ UNCHANGED <<pc, input0, from_date, to_date, ret, segVars, filterVars>>
    /\ UNCHANGED <<file, mtime, cache, cache_manager, served, cache_log, parsed, save_arg>>
    /\ UNCHANGED <<dirVars, apiVars>>

\* lines 351-355: the save, when a cache manager was given, and the return
LoadFinish ==
    /\ pc = "parse"
    /\ pos >= Len(file)
    /\ IF cache_manager
       THEN /\ cache' \in save_cached_entries(cache, mtime,
                                              SaveArgument(messages, from_date, to_date))
            /\ cache_log' = Append(cache_log, "save")
            /\ save_arg' = Some(SaveArgument(messages, from_date, to_date))
            /\ parsed' = [some |-> TRUE, from_date |-> from_date, to_date |-> to_date,
                          mtime |-> mtime, value |-> messages]
       ELSE UNCHANGED <<cache, cache_log, parsed, save_arg>>
    /\ ret' = Returns(LoadReturn(messages, cache'))
    /\ served' = "parse"
    /\ pc' = "done"
    /\ UNCHANGED <<messages, input0, from_date, to_date, pos, segVars, filterVars>>
    /\ UNCHANGED <<file, mtime, cache_manager, diagnostics>>
    /\ UNCHANGED <<dirVars, apiVars>>

NextLoad == AppendLine \/ LoadCall \/ LoadLine \/ LoadFinish

SpecLoad == InitLoad /\ [][NextLoad]_vars

\* ---------------------------------------------------------- load: claims

\* C6: on an unchanged source, a call with a cache manager that is served from
\* the cache returns what the call that parsed the source returned for the
\* same from/to arguments
C6_CacheTransparent ==
    ( /\ pc = "done"
      /\ served = "cache"
      /\ parsed.some
      /\ parsed.mtime = mtime
      /\ parsed.from_date = from_date
      /\ parsed.to_date = to_date )
        => ret.value = parsed.value

Converts(line) ==
    /\ line.json = "object"
    /\ line.type \in RecognisedTypes
    /\ line.convert = "ok"

Rejected(line) == line.json # "blank" /\ ~Converts(line)

\* the positions (0-based) of the lines of f that convert
ConvertingLines(f) == { k \in 0..(Len(f) - 1) : Converts(f[k + 1]) }

\* the positions (0-based) of the non-blank lines of f that do not
RejectedLines(f) == { k \in 0..(Len(f) - 1) : Rejected(f[k + 1]) }

RECURSIVE Ascending(_)
\* the members of a set of numbers in ascending order
Ascending(S) ==
    IF S = {} THEN <<>>
    ELSE LET lo == CHOOSE x \in S : \A y \in S : x <= y
         IN  <<lo>> \o Ascending(S \ {lo})

\* C7: a call that parses the source returns, in line order, the entries of
\* the lines that decode, are of a recognised type and convert, and prints
\* exactly one diagnostic for every other non-blank line
C7_NeverAborts ==
    (pc = "done" /\ served = "parse") =>
        /\ ret.how = "returned"
        /\ ret.value = [k \in 1..Cardinality(ConvertingLines(file)) |->
                           file[Ascending(ConvertingLines(file))[k] + 1].entry]
        /\ [k \in 1..Len(diagnostics) |-> diagnostics[k].line_no]
               = Ascending(RejectedLines(file))

\* a line of invalid JSON followed by a valid user entry: one entry, one
\* diagnostic
C7_Witness ==
    /\ pc = "done"
    /\ served = "parse"
    /\ file = <<LBadJson, LObject("user", "ok", EntryB)>>
    /\ ret = Returns(<<EntryB>>)
    /\ Len(diagnostics) = 1

\* the entries of the lines of f that convert, in line order
ConvertedEntries(f) ==
    [k \in 1..Cardinality(ConvertingLines(f)) |->
        f[Ascending(ConvertingLines(f))[k] + 1].entry]

\* the cache holds the result of the call that just parsed the source
SaveTookEffect ==
    cache = [some |-> TRUE, mtime |-> mtime, entries |-> ConvertedEntries(file)]

KindFor(line) ==
    IF line.json = "invalid" THEN {"json_decode"}
    ELSE IF line.json = "nonobject" THEN {"not_object"}
    ELSE IF line.type \notin RecognisedTypes THEN {"unrecognised"}
    ELSE IF line.convert = "validation" THEN {"validation"}
    ELSE {"validation", "value_error", "unexpected"}

\* C19: every skipped line has one diagnostic, which names the source and the
\* line's 0-based position with blank lines counted, and whose kind tells the
\* cause: a JSON decode error for a line that is not valid JSON, never a
\* validation error; unrecognised type for an object of another type; a
\* validation failure for a recognised type that fails validation
C19_DiagnosticKinds ==
    (pc = "done" /\ served = "parse") =>
        /\ Len(diagnostics) = Cardinality(RejectedLines(file))
        /\ \A k \in 1..Len(diagnostics) :
              /\ diagnostics[k].source = SourcePath
              /\ diagnostics[k].line_no = Ascending(RejectedLines(file))[k]
              /\ diagnostics[k].kind \in KindFor(file[diagnostics[k].line_no + 1])

\* a blank line and then a line of invalid JSON: one diagnostic, for line 1,
\* of kind JSON decode error
C19_Witness ==
    /\ pc = "done"
    /\ served = "parse"
    /\ file = <<LBlank, LBadJson>>
    /\ diagnostics = <<Diagnostic(1, "json_decode")>>

\* the cache operations of a call that was served by the cache
HitLog == << LookupName(from_date, to_date) >>

\* the cache operations of a call that parsed the source
MissLog == << LookupName(from_date, to_date), "save" >>

\* what a hit hands back: the saved entries, those of the range when one is
\* asked for
CachedAnswer ==
    IF Truthy(from_date) \/ Truthy(to_date)
    THEN filter_messages_by_date(cache.entries, from_date, to_date).value
    ELSE cache.entries

\* C24: a call without a cache manager makes no cache operation; a call with
\* one looks the source up first; while it parses, nothing is saved; a call
\* served by the cache has read no line, saved nothing and returns the cached
\* entries; a call that parsed has read every line and then saved once, the
\* full parse of the source, whatever range was asked for
C24_CacheProtocol ==
    /\ ~cache_manager => (cache_log = <<>> /\ ~save_arg.some)
    /\ (cache_manager /\ pc = "parse") => (cache_log = HitLog /\ ~save_arg.some)
    /\ (cache_manager /\ pc = "done" /\ served = "cache") =>
           /\ cache_log = HitLog
           /\ ~save_arg.some
           /\ pos = 0 /\ messages = <<>> /\ diagnostics = <<>>
           /\ cache.some /\ cache.mtime = mtime
           /\ ret = Returns(CachedAnswer)
    /\ (cache_manager /\ pc = "done" /\ served = "parse") =>
           /\ cache_log = MissLog
           /\ pos = Len(file)
           /\ save_arg = Some(ConvertedEntries(file))

\* a call with a from date misses the cache and saves an entry that lies
\* before the from date
C24_Witness ==
    /\ pc = "done"
    /\ cache_manager
    /\ served = "parse"
    /\ Truthy(from_date)
    /\ save_arg.some
    /\ EntryA \in Range(save_arg.v)
    /\ EntryA \notin Range(filter_messages_by_date(save_arg.v, from_date, to_date).value)

\* ---------------------------------------------- load_directory_transcripts

RECURSIVE ParseFrom(_, _, _, _)
\* load_transcript without a cache manager, as a function of the lines: the
\* loop of lines 305-349 from line k on
ParseFrom(f, k, msgs, diags) ==
    IF k >= Len(f) THEN [messages |-> msgs, diagnostics |-> diags]
    ELSE ParseFrom(f, k + 1,
                   IF LineOutcome(f[k + 1]).append
                   THEN Append(msgs, parse_transcript_entry(f[k + 1]).entry)
                   ELSE msgs,
                   IF LineOutcome(f[k + 1]).diag # "none"
                   THEN Append(diags, [line_no |-> k, kind |-> LineOutcome(f[k + 1]).diag])
                   ELSE diags)

\* the step-wise parse of load_transcript and the function agree
LoadStepwiseAgrees ==
    (pc = "done" /\ served = "parse") =>
        /\ ret.value = ParseFrom(file, 0, <<>>, <<>>).messages
        /\ Len(diagnostics) = Len(ParseFrom(file, 0, <<>>, <<>>).diagnostics)

\* a timestamp text as a sequence of numbers ordered as the texts are: first
\* the class of its first character (digit before letter), then the
\* fixed-width date, time and microsecond fields, then the zone suffix
\* ("" before "+01:00" before "Z")
TsText(ts) ==
    CASE ts.form = "empty" -> <<>>
      [] ts.form = "garbage" -> <<1>>
      [] ts.form = "iso" ->
            <<0, ts.day, ts.sec, ts.us>>
                \o (CASE ts.zone = "" -> <<>>
                      [] ts.zone = "Z" -> <<2>>
                      [] OTHER -> <<1>>)
      [] OTHER -> <<>>

\* get_timestamp(entry): entry.timestamp when the entry has the attribute
\* (None for an attribute that holds None), "" when it has none
get_timestamp(entry) ==
    IF IsSummary(entry) THEN [str |-> TRUE, text |-> <<>>]
    ELSE [str |-> entry.timestamp.form # "none", text |-> TsText(entry.timestamp)]

RECURSIVE StrLess(_, _)
\* a < b for two str, character by character
StrLess(a, b) ==
    IF b = <<>> THEN FALSE
    ELSE IF a = <<>> THEN TRUE
    ELSE IF Head(a) # Head(b) THEN Head(a) < Head(b)
    ELSE StrLess(Tail(a), Tail(b))

\* InsertSorted that puts e before the elements of equal key
InsertSortedBeforeEqual(sorted, e) ==
    LET p == Cardinality({ k \in 1..Len(sorted) :
                             StrLess(get_timestamp(sorted[k]).text, get_timestamp(e).text) })
    IN  SubSeq(sorted, 1, p) \o <<e>> \o SubSeq(sorted, p + 1, Len(sorted))

\* one element more in a list sorted by key: e goes after every element whose
\* key is not greater than its own
InsertSorted(sorted, e) ==
    LET p == Cardinality({ k \in 1..Len(sorted) :
                             ~StrLess(get_timestamp(e).text, get_timestamp(sorted[k]).text) })
    IN  SubSeq(sorted, 1, p) \o <<e>> \o SubSeq(sorted, p + 1, Len(sorted))

RECURSIVE SortByKey(_)
\* list.sort(key=get_timestamp): the stable ascending order by key
SortByKey(s) ==
    IF s = <<>> THEN <<>>
    ELSE InsertSorted(SortByKey(SubSeq(s, 1, Len(s) - 1)), s[Len(s)])

\* list.sort compares the keys of two elements: a key that is None cannot be
\* compared (TypeError)
SortRaises(s) == Len(s) >= 2 /\ \E k \in 1..Len(s) : ~get_timestamp(s[k]).str

TxtSortError == <<"'", "<", "'", " ", "n", "o", "t", " ", "s", "u", "p", "p", "o", "r", "t", "e", "d">>

\* the entries of the sources of a directory: a summary, an entry whose
\* timestamp is the empty text, two entries of the same timestamp, and one
\* that is later as a text and earlier as an instant
DirEntries ==
    { SummaryEntry,
      Entry("user", S1, EmptyTs, StrContent(TxtHi)),
      Entry("user", S1, Iso(1, 0, 0, "Z"), StrContent(TxtHi)),
      Entry("user", S2, Iso(1, 0, 0, "Z"), StrContent(TxtHello)),
      Entry("assistant", S1, Iso(1, 1800, 0, "+01:00"), StrContent(TxtHi)) }

DirLines == { LBadJson } \cup { LObject(e.type, "ok", e) : e \in DirEntries }

\* the lines flat dealt out to nf files in order: file k gets the lines whose
\* owner is k
FileOf(flat, owner, k) ==
    SubSeq(flat,
           Cardinality({ j \in 1..Len(flat) : owner[j] < k }) + 1,
           Cardinality({ j \in 1..Len(flat) : owner[j] <= k }))

\* the directories explored: up to MaxFiles files that hold up to MaxDirLines
\* lines between them, in the order glob lists them
Directories ==
    UNION { { [k \in 1..nf |-> FileOf(flat, owner, k)] :
                owner \in { o \in [1..Len(flat) -> 1..nf] :
                              \A j \in 1..(Len(flat) - 1) : o[j] <= o[j + 1] } } :
            flat \in SeqsUpTo(DirLines, MaxDirLines), nf \in 0..MaxFiles }

InitDir ==
    /\ jsonl_files \in Directories
    /\ \E r \in LoadRanges : from_date = r[1] /\ to_date = r[2]
    /\ all_messages = <<>>
    /\ messages = <<>>
    /\ input0 = <<>>
    /\ diagnostics = <<>>
    /\ pos = 0
    /\ ret = NoReturn
    /\ pc = "files"
    /\ file = <<>>
    /\ mtime = 0
    /\ cache = NoCache
    /\ cache_manager = FALSE
    /\ served = "nothing"
    /\ cache_log = <<>>
    /\ parsed = NoParse
    /\ save_arg = None
    /\ SegUnused
    /\ FilterUnused
    /\ ApiUnused

\* lines 371-375: load_transcript of the next file (no cache manager: the
\* file is parsed, from_date and to_date are not used), its entries appended
DirLoadFile ==
    /\ pc = "files"
    /\ pos < Len(jsonl_files)
    /\ LET loaded == ParseFrom(jsonl_files[pos + 1], 0, <<>>, <<>>)
       IN  /\ messages' = loaded.messages
           /\ all_messages' = all_messages \o loaded.messages
           /\ diagnostics' = diagnostics \o
                  [k \in 1..Len(loaded.diagnostics) |->
                      [source |-> pos,
                       line_no |-> loaded.diagnostics[k].line_no,
                       kind |-> loaded.diagnostics[k].kind]]
           /\ file' = jsonl_files[pos + 1]
    /\ pos' = pos + 1
    /\ served' = "parse"
    /\ UNCHANGED <<pc, input0, from_date, to_date, ret, segVars, filterVars>>
    /\ UNCHANGED <<mtime, cache, cache_manager, cache_log, parsed, save_arg, jsonl_files, apiVars>>

\* lines 377-384: the sort in place and the return
DirSortReturn ==
    /\ pc = "files"
    /\ pos >= Len(jsonl_files)
    /\ IF SortRaises(all_messages)
       THEN /\ ret' = Raises("TypeError", TxtSortError)
            /\ pc' = "raised"
            /\ UNCHANGED all_messages
       ELSE /\ all_messages' = SortByKey(all_messages)
            /\ ret' = Returns(SortByKey(all_messages))
            /\ pc' = "done"
    /\ UNCHANGED <<messages, input0, from_date, to_date, pos, segVars, filterVars>>
    /\ UNCHANGED <<loadVars, jsonl_files, apiVars>>

NextDir == DirLoadFile \/ DirSortReturn

SpecDir == InitDir /\ [][NextDir]_vars

\* --------------------------------------------------- directory: claims

RECURSIVE PerSourceConcat(_)
\* the per-source results one after the other: of each file, the entries of
\* the lines that convert
PerSourceConcat(files) ==
    IF files = <<>> THEN <<>>
    ELSE ConvertedEntries(files[1]) \o PerSourceConcat(Tail(files))

Count(s, x) == Cardinality({ k \in 1..Len(s) : s[k] = x })

\* an entry with a timestamp: not a summary, and its timestamp text not empty
Timestamped(e) == ~IsSummary(e) /\ e.timestamp.form \notin {"none", "empty"}

\* the key C15 sorts by: the timestamp text, the empty text without one
KeyOf(e) == IF Timestamped(e) THEN TsText(e.timestamp) ELSE <<>>

\* text a comes strictly before text b
TextBefore(a, b) ==
    \E n \in 0..Len(a) :
        /\ n <= Len(b)
        /\ \A j \in 1..n : a[j] = b[j]
        /\ \/ n = Len(a) /\ n < Len(b)
           \/ n < Len(a) /\ n < Len(b) /\ a[n + 1] < b[n + 1]

DictHas(d, k) == \E p \in d : p[1] = k

DictGet(d, k) == (CHOOSE p \in d : p[1] = k)[2]

\* d[k] = v
DictSet(d, k, v) == { p \in d : p[1] # k } \cup { <<k, v>> }

\* None where a str is expected (requestId, summary)
NoStr == [some |-> FALSE, v |-> ""]

\* d.get(k)
DictGetOrNone(d, k) == IF DictHas(d, k) THEN Some(DictGet(d, k)) ELSE NoStr

\* message.usage: the four counters; a counter that is None is written 0,
\* the tests of lines 368-390 treat the two alike
Usage(inp, out, creation, read) ==
    [input_tokens |-> inp, output_tokens |-> out,
     cache_creation_input_tokens |-> creation, cache_read_input_tokens |-> read]

NoUsage == [some |-> FALSE, v |-> Usage(0, 0, 0, 0)]

\* a transcript entry as process_entries_for_api reads it; skip is what
\* should_skip_message answers for the text of a user entry
ApiRecord(type, uuid, sessionId, timestamp, content, skip, requestId, usage, leafUuid, summary) ==
    [type |-> type, uuid |-> uuid, sessionId |-> sessionId, timestamp |-> timestamp,
     content |-> content, skip |-> skip, requestId |-> requestId, usage |-> usage,
     leafUuid |-> leafUuid, summary |-> summary]

ApiUser(uuid, sessionId, timestamp, content, skip) ==
    ApiRecord("user", uuid, sessionId, timestamp, content, skip, NoStr, NoUsage, "", "")

ApiAssistant(uuid, sessionId, timestamp, requestId, usage) ==
    ApiRecord("assistant", uuid, sessionId, timestamp, NoContent, FALSE, requestId, usage, "", "")

ApiSystem(uuid, sessionId, timestamp) ==
    ApiRecord("system", uuid, sessionId, timestamp, NoContent, FALSE, NoStr, NoUsage, "", "")

ApiSummary(leafUuid, summary) ==
    ApiRecord("summary", "", "", "", NoContent, FALSE, NoStr, NoUsage, leafUuid, summary)

\* isinstance(entry, SummaryTranscriptEntry)
IsApiSummary(e) == e.type = "summary"

\* utils.should_skip_message(content)
should_skip_message(e) == e.skip

\* utils.create_session_preview(content)
create_session_preview(text) == Some(text)

\* renderer.format_timestamp(timestamp)
format_timestamp(ts) == <<"formatted", ts>>

\* lines 256-260: whether the first loop maps the uuid of entry e
MapsUuid(e) ==
    /\ ~IsApiSummary(e)
    /\ e.uuid # "" /\ e.sessionId # ""
    /\ e.type = "assistant"

\* the test of line 365 without the look into seen_request_ids
CountsUsageEveryTime(e, seen) == e.usage.some /\ e.requestId.some /\ e.requestId.v # ""

\* line 365: `usage and request_id and request_id not in seen_request_ids`
CountsUsage(e, seen) ==
    /\ e.usage.some
    /\ e.requestId.some /\ e.requestId.v # ""
    /\ e.requestId.v \notin seen

\* lines 286-299
SessionInfo(id, summary, timestamp) ==
    [id |-> id, summary |-> summary,
     first_timestamp |-> timestamp, last_timestamp |-> timestamp,
     timestamp_range |-> <<>>, message_count |-> 0,
     first_user_message |-> None, token_summary |-> <<>>,
     total_input_tokens |-> 0, total_output_tokens |-> 0,
     total_cache_creation_tokens |-> 0, total_cache_read_tokens |-> 0]

\* the fields of a ProcessedMessage that do not come from the renderer
ProcessedMessage(id, type, timestamp, session_id, session_summary, token_usage, header) ==
    [id |-> id, type |-> type, timestamp |-> timestamp, session_id |-> session_id,
     session_summary |-> session_summary, token_usage |-> token_usage,
     is_session_header |-> header]

\* `session_id in sessions`
HasSession(ss, id) == \E k \in 1..Len(ss) : ss[k].id = id

\* sessions[session_id]
SessionAt(ss, id) == ss[CHOOSE k \in 1..Len(ss) : ss[k].id = id]

\* the dict with sessions[id] replaced by s
WithSession(ss, id, s) == [k \in 1..Len(ss) |-> IF ss[k].id = id THEN s ELSE ss[k]]

\* lines 380-391: the parts of token_usage_str
TokenParts(u) ==
    (IF u.input_tokens # 0 THEN << <<"Input", u.input_tokens>> >> ELSE <<>>)
    \o (IF u.output_tokens # 0 THEN << <<"Output", u.output_tokens>> >> ELSE <<>>)
    \o (IF u.cache_creation_input_tokens # 0
        THEN << <<"Cache Creation", u.cache_creation_input_tokens>> >> ELSE <<>>)
    \o (IF u.cache_read_input_tokens # 0
        THEN << <<"Cache Read", u.cache_read_input_tokens>> >> ELSE <<>>)

\* lines 368-377: the counters of u added to the totals of session s
AddUsage(s, u) ==
    [s EXCEPT !.total_input_tokens = @ + u.input_tokens,
              !.total_output_tokens = @ + u.output_tokens,
              !.total_cache_creation_tokens = @ + u.cache_creation_input_tokens,
              !.total_cache_read_tokens = @ + u.cache_read_input_tokens]

\* lines 421-425
TimestampRange(s) ==
    IF s.first_timestamp # "" /\ s.last_timestamp # ""
    THEN IF s.first_timestamp = s.last_timestamp
         THEN << format_timestamp(s.first_timestamp) >>
         ELSE << format_timestamp(s.first_timestamp), format_timestamp(s.last_timestamp) >>
    ELSE s.timestamp_range

\* lines 428-440
TokenSummary(s) ==
    IF s.total_input_tokens > 0 \/ s.total_output_tokens > 0
    THEN TokenParts(Usage(s.total_input_tokens, s.total_output_tokens,
                          s.total_cache_creation_tokens, s.total_cache_read_tokens))
    ELSE s.token_summary

\* lines 419-440 for one session
FinalizeSession(s) ==
    [s EXCEPT !.timestamp_range = TimestampRange(s), !.token_summary = TokenSummary(s)]

ApiTitle == "Transcript"

\* cache.get_library_version()
get_library_version == "version"

U1 == ApiUser("u1", "s1", "t1", StrContent(TxtHi), FALSE)
U2 == ApiUser("u2", "s2", "t2", StrContent(TxtHi), TRUE)
A1 == ApiAssistant("a1", "s1", "t2", Some("r1"), Some(Usage(10, 5, 0, 2)))
A2 == ApiAssistant("a2", "s2", "t3", Some("r1"), Some(Usage(3, 4, 1, 0)))
A3 == ApiAssistant("a3", "s1", "t1", Some("r1"), NoUsage)
A4 == ApiAssistant("a4", "s2", "t2", NoStr, Some(Usage(7, 7, 0, 0)))
A5 == ApiAssistant("a5", "s2", "", Some("r2"), Some(Usage(1, 0, 1, 1)))
Y1 == ApiSystem("y1", "s1", "t3")
SumA == ApiSummary("a1", "Sum A")
SumU == ApiSummary("u1", "Sum U")
SumZ == ApiSummary("zz", "Sum Z")

ApiEntries == { U1, U2, A1, A2, A3, A4, A5, Y1, SumA, SumU, SumZ }

InitApi ==
    /\ entries \in SeqsUpTo(ApiEntries, MaxEntries)
    /\ uuid_to_session = {}
    /\ session_summaries = {}
    /\ sessions = <<>>
    /\ seen_sessions = {}
    /\ seen_request_ids = {}
    /\ counted = {}
    /\ messages = <<>>
    /\ input0 = <<>>
    /\ from_date = NoExpr
    /\ to_date = NoExpr
    /\ pos = 0
    /\ ret = NoReturn
    /\ pc = "uuids"
    /\ SegUnused
    /\ FilterUnused
    /\ LoadUnused
    /\ DirUnused

\* lines 255-261: one entry of the first loop
ApiMapUuid ==
    /\ pc = "uuids"
    /\ pos < Len(entries)
    /\ uuid_to_session' =
           (IF MapsUuid(entries[pos + 1])
            THEN DictSet(uuid_to_session, entries[pos + 1].uuid, entries[pos + 1].sessionId)
            ELSE uuid_to_session)
    /\ pos' = pos + 1
    /\ UNCHANGED <<messages, pc, input0, from_date, to_date, ret>>
    /\ UNCHANGED <<entries, session_summaries, sessions, seen_sessions, seen_request_ids, counted>>
    /\ UNCHANGED <<segVars, filterVars, loadVars, dirVars>>

\* the first loop is through: on to the loop of line 264
ApiUuidsMapped ==
    /\ pc = "uuids"
    /\ pos >= Len(entries)
    /\ pc' = "summaries"
    /\ pos' = 0
    /\ UNCHANGED <<messages, input0, from_date, to_date, ret, apiVars>>
    /\ UNCHANGED <<segVars, filterVars, loadVars, dirVars>>

\* lines 264-268: one entry of the second loop
ApiMapSummary ==
    /\ pc = "summaries"
    /\ pos < Len(entries)
    /\ LET entry == entries[pos + 1]
       IN  session_summaries' =
               (IF IsApiSummary(entry) /\ DictHas(uuid_to_session, entry.leafUuid)
                THEN DictSet(session_summaries,
                             DictGet(uuid_to_session, entry.leafUuid), entry.summary)
                ELSE session_summaries)
    /\ pos' = pos + 1
    /\ UNCHANGED <<messages, pc, input0, from_date, to_date, ret>>
    /\ UNCHANGED <<entries, uuid_to_session, sessions, seen_sessions, seen_request_ids, counted>>
    /\ UNCHANGED <<segVars, filterVars, loadVars, dirVars>>

\* lines 270-274: the second loop is through, the empty collections of the
\* third
ApiSummariesMapped ==
    /\ pc = "summaries"
    /\ pos >= Len(entries)
    /\ sessions' = <<>>
    /\ messages' = <<>>
    /\ seen_sessions' = {}
    /\ seen_request_ids' = {}
    /\ pc' = "entries"
    /\ pos' = 0
    /\ UNCHANGED <<input0, from_date, to_date, ret>>
    /\ UNCHANGED <<entries, uuid_to_session, session_summaries, counted>>
    /\ UNCHANGED <<segVars, filterVars, loadVars, dirVars>>

\* lines 276-416: one entry of the third loop
ApiEntry ==
    /\ pc = "entries"
    /\ pos < Len(entries)
    /\ LET entry == entries[pos + 1]
           session_id == entry.sessionId
           new == ~HasSession(sessions, session_id)
           header == new /\ session_id \notin seen_sessions
           summary == DictGetOrNone(session_summaries, session_id)
           sessions1 == IF new
                        THEN Append(sessions, SessionInfo(session_id, summary, entry.timestamp))
                        ELSE sessions
           messages1 == IF header
                        THEN Append(messages,
                                    ProcessedMessage("session-" \o session_id, "session_header",
                                                     entry.timestamp, session_id, summary,
                                                     None, TRUE))
                        ELSE messages
           session1 == [SessionAt(sessions1, session_id) EXCEPT
                            !.message_count = @ + 1,
                            !.last_timestamp = entry.timestamp]
           text == extract_text_content(entry.content)
           session2 == IF ~session1.first_user_message.some /\ Strip(text) # <<>>
                       THEN [session1 EXCEPT !.first_user_message = create_session_preview(text)]
                       ELSE session1
           adds == CountsUsage(entry, seen_request_ids)
       IN  IF IsApiSummary(entry)
           THEN UNCHANGED <<messages, sessions, seen_sessions, seen_request_ids, counted>>
           ELSE /\ seen_sessions' = (IF header THEN seen_sessions \cup {session_id}
                                     ELSE seen_sessions)
                /\ IF entry.type = "user"
                   THEN /\ UNCHANGED <<seen_request_ids, counted>>
                        /\ IF should_skip_message(entry)
                           THEN /\ sessions' = WithSession(sessions1, session_id, session1)
                                /\ messages' = messages1
                           ELSE /\ sessions' = WithSession(sessions1, session_id, session2)
                                /\ messages' =
                                       Append(messages1,
                                              ProcessedMessage(entry.uuid, "user", entry.timestamp,
                                                               session_id, summary, None, FALSE))
                   ELSE IF entry.type = "assistant"
                   THEN /\ seen_request_ids' = (IF adds
                                                THEN seen_request_ids \cup {entry.requestId.v}
                                                ELSE seen_request_ids)
                        /\ counted' = (IF adds THEN counted \cup {pos} ELSE counted)
                        /\ sessions' =
                               WithSession(sessions1, session_id,
                                           IF adds THEN AddUsage(session1, entry.usage.v)
                                           ELSE session1)
                        /\ messages' =
                               Append(messages1,
                                      ProcessedMessage(entry.uuid, "assistant", entry.timestamp,
                                                       session_id, summary,
                                                       IF adds THEN Some(TokenParts(entry.usage.v))
                                                       ELSE None,
                                                       FALSE))
                   ELSE /\ sessions' = WithSession(sessions1, session_id, session1)
                        /\ messages' = messages1
                        /\ UNCHANGED <<seen_request_ids, counted>>
    /\ pos' = pos + 1
    /\ UNCHANGED <<pc, input0, from_date, to_date, ret>>
    /\ UNCHANGED <<entries, uuid_to_session, session_summaries>>
    /\ UNCHANGED <<segVars, filterVars, loadVars, dirVars>>

\* lines 418-447: the sessions finalized, the TranscriptData returned
ApiFinish ==
    /\ pc = "entries"
    /\ pos >= Len(entries)
    /\ sessions' = [k \in 1..Len(sessions) |-> FinalizeSession(sessions[k])]
    /\ ret' = Returns([messages |-> messages, sessions |-> sessions',
                       title |-> ApiTitle, library_version |-> get_library_version])
    /\ pc' = "done"
    /\ UNCHANGED <<messages, input0, from_date, to_date, pos>>
    /\ UNCHANGED <<entries, uuid_to_session, session_summaries, seen_sessions,
                   seen_request_ids, counted>>
    /\ UNCHANGED <<segVars, filterVars, loadVars, dirVars>>

NextApi ==
    \/ ApiMapUuid
    \/ ApiUuidsMapped
    \/ ApiMapSummary
    \/ ApiSummariesMapped
    \/ ApiEntry
    \/ ApiFinish

SpecApi == InitApi /\ [][NextApi]_vars

\* ----------------------------------------------------------- api: claims

\* the summaries whose leafUuid is the uuid of a loaded entry of session id
LinkedSummaries(id) ==
    { entries[k].summary : k \in
        { k \in 1..Len(entries) :
            /\ IsApiSummary(entries[k])
            /\ \E j \in 1..Len(entries) :
                  /\ ~IsApiSummary(entries[j])
                  /\ entries[j].uuid = entries[k].leafUuid
                  /\ entries[j].sessionId = id } }

\* C27: the call returns, and a session has a summary exactly when the
\* leafUuid of some summary is the uuid of a loaded entry of the session; the
\* summary is then that of such a summary entry. A summary whose leafUuid
\* names no loaded entry gives no session a summary
C27_SummaryByLookup ==
    pc = "done" =>
        /\ ret.how = "returned"
        /\ \A k \in 1..Len(ret.value.sessions) :
              LET s == ret.value.sessions[k]
              IN  IF LinkedSummaries(s.id) = {}
                  THEN s.summary = NoStr
                  ELSE s.summary.some /\ s.summary.v \in LinkedSummaries(s.id)

\* the entry at position k (0-based) carries a requestId that an earlier
\* entry carried
EarlierWithRequest(k) ==
    \E j \in 0..(k - 1) : At(entries, j).requestId = At(entries, k).requestId

\* ... that an earlier assistant entry with usage carried
EarlierWithUsage(k) ==
    \E j \in 0..(k - 1) :
        /\ At(entries, j).type = "assistant"
        /\ At(entries, j).usage.some
        /\ At(entries, j).requestId = At(entries, k).requestId

ZeroUsage == Usage(0, 0, 0, 0)

PlusUsage(a, b) ==
    Usage(a.input_tokens + b.input_tokens, a.output_tokens + b.output_tokens,
          a.cache_creation_input_tokens + b.cache_creation_input_tokens,
          a.cache_read_input_tokens + b.cache_read_input_tokens)

RECURSIVE CountedUsage(_, _)
\* the usage of the counted entries of session id among the first n entries
CountedUsage(id, n) ==
    IF n = 0 THEN ZeroUsage
    ELSE PlusUsage(CountedUsage(id, n - 1),
                   IF (n - 1) \in counted /\ entries[n].sessionId = id
                   THEN entries[n].usage.v ELSE ZeroUsage)

TotalsOf(s) ==
    Usage(s.total_input_tokens, s.total_output_tokens,
          s.total_cache_creation_tokens, s.total_cache_read_tokens)

\* every counted entry is an assistant entry with usage and requestId, no
\* requestId is counted twice, and the totals of a session are the sum of the
\* usage of its counted entries
CountedAtMostOnce ==
    pc \in {"entries", "done"} =>
        /\ counted \subseteq 0..(pos - 1)
        /\ \A k \in counted :
              /\ At(entries, k).type = "assistant"
              /\ At(entries, k).usage.some
              /\ At(entries, k).requestId.some
        /\ \A k, j \in counted :
              k # j => At(entries, k).requestId # At(entries, j).requestId
        /\ \A k \in 1..Len(sessions) :
              TotalsOf(sessions[k]) = CountedUsage(sessions[k].id, pos)

\* a step takes no session away and lowers no total
TotalsNeverDecrease ==
    /\ Len(sessions') >= Len(sessions)
    /\ \A k \in 1..Len(sessions) :
          /\ sessions'[k].id = sessions[k].id
          /\ sessions'[k].total_input_tokens >= sessions[k].total_input_tokens
          /\ sessions'[k].total_output_tokens >= sessions[k].total_output_tokens
          /\ sessions'[k].total_cache_creation_tokens >= sessions[k].total_cache_creation_tokens
          /\ sessions'[k].total_cache_read_tokens >= sessions[k].total_cache_read_tokens

\* C30 as stated: each requestId is counted at most once, an entry is counted
\* only if no earlier entry of any kind carried its requestId, an entry
\* without usage or requestId adds nothing, and totals never decrease
C30_OnlyIfNoEarlierRequest ==
    /\ [](CountedAtMostOnce /\ \A k \in counted : ~EarlierWithRequest(k))
    /\ [][TotalsNeverDecrease]_vars

\* C30: each requestId is counted at most once, an entry is counted only if
\* no earlier assistant entry with usage carried its requestId, an entry
\* without usage or requestId adds nothing, and totals never decrease
C30_CountedOncePerRequest ==
    /\ [](CountedAtMostOnce /\ \A k \in counted : ~EarlierWithUsage(k))
    /\ [][TotalsNeverDecrease]_vars

\* the usage of an entry is counted although an earlier entry without usage
\* carried its requestId, and a later entry with that requestId is not counted
C30_Witness ==
    /\ pc = "done"
    /\ Len(entries) = 3
    /\ ~entries[1].usage.some
    /\ entries[2].requestId = entries[1].requestId
    /\ entries[3].requestId = entries[1].requestId
    /\ entries[3].usage.some
    /\ counted = {1}

====
